---- MODULE Spec2Model ----
(***************************************************************************)
(* Ultimate Tic-Tac-Toe engine (class UTTT, uttt.js).                       *)
(*                                                                         *)
(* The live engine instance is the variable `game`, a record with one      *)
(* field per field of the JavaScript object.  Every method of the class is *)
(* an operator over such records, translated statement by statement, so    *)
(* that the live engine and the private engine of buildSnapshots run the   *)
(* same code.                                                              *)
(*                                                                         *)
(* JavaScript values: a mark or outcome is "X", "O", "D" or null (the       *)
(* string "null" here); an absent array (win line, lastMove) is <<>>; an   *)
(* absent forcedBoard is -1.                                               *)
(***************************************************************************)
EXTENDS Integers, Sequences, FiniteSets, TLC

VARIABLES game,          \* the live UTTT instance
          result,        \* what the last makeMove call on it returned
          acceptedMoves, \* the <<b, c>> of every call that returned true, in order
          offScript,     \* how many calls were not the next move of a recorded game
          replays,       \* the UTTT.buildSnapshots calls made so far: argument and value returned
          held,          \* <<s>> when the caller holds the value s of its last getState() call, else <<>>
          overwrites,    \* how many elements of snapshot arrays the caller has overwritten
          client,        \* the page of one game client (game.js): its variables, its DOM, its timers
          now            \* that page's Date.now(), in seconds

vars == <<game, result, acceptedMoves, offScript, replays, held, overwrites, client, now>>

Idx == 0..8

null == "null"
nullLine == <<>>
nullIdx == -1

\* JavaScript truthiness of a mark/outcome value: null is falsy, 'X', 'O', 'D' are truthy.
Truthy(v) == v # null

WIN_LINES == << <<0,1,2>>, <<3,4,5>>, <<6,7,8>>, <<0,3,6>>, <<1,4,7>>, <<2,5,8>>, <<0,4,8>>, <<2,4,6>> >>

Min(S) == CHOOSE x \in S : \A y \in S : x <= y

\* A constructor that sends the first player to the centre sub-board.
UTTT_ForcedCentre ==
    [ boards        |-> [b \in Idx |-> [c \in Idx |-> null]],
      boardWinners  |-> [b \in Idx |-> null],
      boardWinLines |-> [b \in Idx |-> nullLine],
      currentPlayer |-> "X",
      forcedBoard   |-> 4,
      gameWinner    |-> null,
      gameWinLine   |-> nullLine,
      lastMove      |-> <<>>,
      moveHistory   |-> <<>> ]

\* constructor()
UTTT ==
    [ boards        |-> [b \in Idx |-> [c \in Idx |-> null]],
      boardWinners  |-> [b \in Idx |-> null],
      boardWinLines |-> [b \in Idx |-> nullLine],
      currentPlayer |-> "X",
      forcedBoard   |-> nullIdx,
      gameWinner    |-> null,
      gameWinLine   |-> nullLine,
      lastMove      |-> <<>>,
      moveHistory   |-> <<>> ]

\* The lines of WIN_LINES, by position, on which board has three equal truthy values.
MatchingLines(board) ==
    { i \in 1..Len(WIN_LINES) :
        /\ Truthy(board[WIN_LINES[i][1]])
        /\ board[WIN_LINES[i][1]] = board[WIN_LINES[i][2]]
        /\ board[WIN_LINES[i][1]] = board[WIN_LINES[i][3]] }

\* A check that looks at the three rows only.
checkWin_RowsOnly(board) ==
    IF MatchingLines(board) \cap {1, 2, 3} # {}
    THEN LET l == WIN_LINES[Min(MatchingLines(board) \cap {1, 2, 3})]
         IN  [winner |-> board[l[1]], line |-> l]
    ELSE IF \A k \in Idx : Truthy(board[k])
         THEN [winner |-> "D", line |-> nullLine]
         ELSE [winner |-> null, line |-> nullLine]

\* A check that returns the last matching line.
checkWin_LastMatch(board) ==
    IF MatchingLines(board) # {}
    THEN LET l == WIN_LINES[CHOOSE i \in MatchingLines(board) :
                                \A j \in MatchingLines(board) : j <= i]
         IN  [winner |-> board[l[1]], line |-> l]
    ELSE IF \A k \in Idx : Truthy(board[k])
         THEN [winner |-> "D", line |-> nullLine]
         ELSE [winner |-> null, line |-> nullLine]

\* checkWin(board): the for-loop returns at the first matching line.
checkWin(board) ==
    IF MatchingLines(board) # {}
    THEN LET l == WIN_LINES[Min(MatchingLines(board))]
         IN  [winner |-> board[l[1]], line |-> l]
    ELSE IF \A k \in Idx : Truthy(board[k])
         THEN [winner |-> "D", line |-> nullLine]
         ELSE [winner |-> null, line |-> nullLine]

\* filter(w => w === p).length
CountWon(winners, p) == Cardinality({ i \in Idx : winners[i] = p })

\* A tie-break that gives an exact tie to X.
MajorityWinner_TieToX(winners) ==
    LET x == CountWon(winners, "X")
        o == CountWon(winners, "O")
    IN  IF x >= o THEN "X" ELSE "O"

\* A tie-break that leaves an exact tie undecided.
MajorityWinner_TieUndecided(winners) ==
    LET x == CountWon(winners, "X")
        o == CountWon(winners, "O")
    IN  IF x > o THEN "X" ELSE IF o > x THEN "O" ELSE null

\* x > o ? 'X' : o > x ? 'O' : 'D'
MajorityWinner(winners) ==
    LET x == CountWon(winners, "X")
        o == CountWon(winners, "O")
    IN  IF x > o THEN "X" ELSE IF o > x THEN "O" ELSE "D"

\* An outcome that counts sub-boards before all nine are closed.
checkGameWinner_EarlyMajority(g) ==
    LET res == checkWin(g.boardWinners)
    IN  IF Truthy(res.winner) /\ res.winner # "D"
        THEN [gameWinLine |-> res.line, ret |-> res.winner]
        ELSE IF \E i \in Idx : Truthy(g.boardWinners[i])
             THEN [gameWinLine |-> g.gameWinLine, ret |-> MajorityWinner(g.boardWinners)]
             ELSE [gameWinLine |-> g.gameWinLine, ret |-> null]

\* An outcome that takes a line of three drawn sub-boards for a win.
checkGameWinner_DrawnLine(g) ==
    LET res == checkWin(g.boardWinners)
    IN  IF Truthy(res.winner) /\ res.line # nullLine
        THEN [gameWinLine |-> res.line, ret |-> res.winner]
        ELSE IF \A i \in Idx : Truthy(g.boardWinners[i])
             THEN [gameWinLine |-> g.gameWinLine, ret |-> MajorityWinner(g.boardWinners)]
             ELSE [gameWinLine |-> g.gameWinLine, ret |-> null]

\* checkGameWinner(): returns the outcome and, as a side effect, may set gameWinLine.
checkGameWinner(g) ==
    LET res == checkWin(g.boardWinners)
    IN  IF Truthy(res.winner) /\ res.winner # "D"
        THEN [gameWinLine |-> res.line, ret |-> res.winner]
        ELSE IF \A i \in Idx : Truthy(g.boardWinners[i])
             THEN [gameWinLine |-> g.gameWinLine, ret |-> MajorityWinner(g.boardWinners)]
             ELSE [gameWinLine |-> g.gameWinLine, ret |-> null]

\* A projection that leaves lastMove out.
getState_NoLastMove(g) ==
    [ boards        |-> g.boards,
      winners       |-> g.boardWinners,
      boardWinLines |-> g.boardWinLines,
      forced        |-> g.forcedBoard,
      lastMove      |-> <<>>,
      player        |-> g.currentPlayer,
      gameWinner    |-> g.gameWinner,
      gameWinLine   |-> g.gameWinLine,
      started       |-> TRUE ]

\* getState()
getState(g) ==
    [ boards        |-> g.boards,
      winners       |-> g.boardWinners,
      boardWinLines |-> g.boardWinLines,
      forced        |-> g.forcedBoard,
      lastMove      |-> g.lastMove,
      player        |-> g.currentPlayer,
      gameWinner    |-> g.gameWinner,
      gameWinLine   |-> g.gameWinLine,
      started       |-> TRUE ]

\* A rejection that forgets the forced board.
RejectedAt_NoForcedCheck(g, b, c) ==
    IF Truthy(g.gameWinner) THEN 1
    ELSE IF Truthy(g.boardWinners[b]) THEN 2
    ELSE IF g.boards[b][c] # null THEN 4
    ELSE 0

\* A rejection that forgets that the game is over.
RejectedAt_NoGameOverCheck(g, b, c) ==
    IF Truthy(g.boardWinners[b]) THEN 2
    ELSE IF g.forcedBoard # nullIdx /\ b # g.forcedBoard THEN 3
    ELSE IF g.boards[b][c] # null THEN 4
    ELSE 0

\* A rejection that forgets that the sub-board is closed.
RejectedAt_NoClosedCheck(g, b, c) ==
    IF Truthy(g.gameWinner) THEN 1
    ELSE IF g.forcedBoard # nullIdx /\ b # g.forcedBoard THEN 3
    ELSE IF g.boards[b][c] # null THEN 4
    ELSE 0

\* The four early returns of makeMove, in the order of the code: the number of the
\* return statement that ends the call, 0 when the call gets past all four.
RejectedAt(g, b, c) ==
    IF Truthy(g.gameWinner) THEN 1
    ELSE IF Truthy(g.boardWinners[b]) THEN 2
    ELSE IF g.forcedBoard # nullIdx /\ b # g.forcedBoard THEN 3
    ELSE IF g.boards[b][c] # null THEN 4
    ELSE 0

\* A placement that marks the mirrored cell (c, b) as well.
PlaceMark_Mirrored(g, b, c) ==
    [g EXCEPT !.boards[b][c] = g.currentPlayer, !.boards[c][b] = g.currentPlayer,
              !.lastMove = <<b, c>>]

\* A placement that remembers the move as [c, b].
PlaceMark_LastMoveSwapped(g, b, c) ==
    [g EXCEPT !.boards[b][c] = g.currentPlayer, !.lastMove = <<c, b>>]

\* A placement of the mark of the player who is not to move.
PlaceMark_OpponentMark(g, b, c) ==
    [g EXCEPT !.boards[b][c] = IF g.currentPlayer = "X" THEN "O" ELSE "X",
              !.lastMove = <<b, c>>]

\* this.boards[b][c] = player; this.lastMove = [b, c]
PlaceMark(g, b, c) ==
    [g EXCEPT !.boards[b][c] = g.currentPlayer, !.lastMove = <<b, c>>]

\* An outcome recorded without its line.
RecordBoardOutcome_NoLine(g, b) ==
    LET res == checkWin(g.boards[b])
    IN  IF Truthy(res.winner) THEN [g EXCEPT !.boardWinners[b] = res.winner] ELSE g

\* An outcome that is recorded for a line only, never for a full sub-board.
RecordBoardOutcome_IgnoresDraw(g, b) ==
    LET res == checkWin(g.boards[b])
    IN  IF Truthy(res.winner) /\ res.winner # "D"
        THEN [g EXCEPT !.boardWinners[b] = res.winner, !.boardWinLines[b] = res.line]
        ELSE g

\* const res = this.checkWin(this.boards[b]); if (res.winner) { ... }
RecordBoardOutcome(g, b) ==
    LET res == checkWin(g.boards[b])
    IN  IF Truthy(res.winner)
        THEN [g EXCEPT !.boardWinners[b]  = res.winner,
                       !.boardWinLines[b] = IF res.winner # "D" THEN res.line ELSE @]
        ELSE g

\* An engine that never looks for the outcome of the game.
RecordGameOutcome_Never(g) == g

\* this.gameWinner = this.checkGameWinner()
RecordGameOutcome(g) ==
    LET cgw == checkGameWinner(g)
    IN  [g EXCEPT !.gameWinLine = cgw.gameWinLine, !.gameWinner = cgw.ret]

\* The send rule without the test for a closed target.
NextForcedBoard_Always(g, c) == c

\* this.boardWinners[c] === null ? c : null
NextForcedBoard(g, c) == IF g.boardWinners[c] = null THEN c ELSE nullIdx

\* A push that is skipped for the move that ends the game.
PushHistory_NotWhenOver(g, b, c, player) ==
    IF Truthy(g.gameWinner)
    THEN g
    ELSE [g EXCEPT !.moveHistory =
            Append(@, [board |-> b, cell |-> c, player |-> player, snapshot |-> getState(g)])]

\* A push that stores every entry twice.
PushHistory_Twice(g, b, c, player) ==
    [g EXCEPT !.moveHistory =
        @ \o << [board |-> b, cell |-> c, player |-> player, snapshot |-> getState(g)],
                [board |-> b, cell |-> c, player |-> player, snapshot |-> getState(g)] >>]

\* A push that tags the entry with the player to move next.
PushHistory_TagsNextPlayer(g, b, c, player) ==
    [g EXCEPT !.moveHistory =
        Append(@, [board |-> b, cell |-> c, player |-> g.currentPlayer, snapshot |-> getState(g)])]

\* this.moveHistory.push({ board: b, cell: c, player, snapshot: this.getState() })
PushHistory(g, b, c, player) ==
    [g EXCEPT !.moveHistory =
        Append(@, [board |-> b, cell |-> c, player |-> player, snapshot |-> getState(g)])]

\* A body that takes the snapshot before it hands the turn over.
ApplyMove_SnapshotBeforeFlip(g, b, c) ==
    LET player == g.currentPlayer
        g1 == PlaceMark(g, b, c)
        g2 == RecordBoardOutcome(g1, b)
        g3 == RecordGameOutcome(g2)
        g4 == [g3 EXCEPT !.forcedBoard = NextForcedBoard(g3, c)]
        g5 == PushHistory(g4, b, c, player)
    IN  [g5 EXCEPT !.currentPlayer = IF g5.currentPlayer = "X" THEN "O" ELSE "X"]

\* A body that picks the next forced board before it records the sub-board outcome.
ApplyMove_ForcedBeforeOutcome(g, b, c) ==
    LET player == g.currentPlayer
        g1 == PlaceMark(g, b, c)
        g2 == [g1 EXCEPT !.forcedBoard = NextForcedBoard(g1, c)]
        g3 == RecordBoardOutcome(g2, b)
        g4 == RecordGameOutcome(g3)
        g5 == [g4 EXCEPT !.currentPlayer = IF g4.currentPlayer = "X" THEN "O" ELSE "X"]
    IN  PushHistory(g5, b, c, player)

\* A body that keeps the turn with the player who ended the game.
ApplyMove_NoFlipAtEnd(g, b, c) ==
    LET player == g.currentPlayer
        g1 == PlaceMark(g, b, c)
        g2 == RecordBoardOutcome(g1, b)
        g3 == RecordGameOutcome(g2)
        g4 == [g3 EXCEPT !.forcedBoard = NextForcedBoard(g3, c)]
        g5 == [g4 EXCEPT !.currentPlayer =
                  IF Truthy(g4.gameWinner) THEN @ ELSE IF @ = "X" THEN "O" ELSE "X"]
    IN  PushHistory(g5, b, c, player)

\* The body of makeMove after the early returns.
ApplyMove(g, b, c) ==
    LET player == g.currentPlayer
        g1 == PlaceMark(g, b, c)
        g2 == RecordBoardOutcome(g1, b)
        g3 == RecordGameOutcome(g2)
        g4 == [g3 EXCEPT !.forcedBoard = NextForcedBoard(g3, c)]
        g5 == [g4 EXCEPT !.currentPlayer = IF g4.currentPlayer = "X" THEN "O" ELSE "X"]
    IN  PushHistory(g5, b, c, player)

\* A makeMove that records the move before it validates it.
makeMove_RecordsFirst(g, b, c) ==
    IF RejectedAt(g, b, c) # 0
    THEN [game |-> [g EXCEPT !.lastMove = <<b, c>>], ret |-> FALSE]
    ELSE [game |-> ApplyMove(g, b, c), ret |-> TRUE]

\* makeMove(b, c): the engine after the call and the value returned.
makeMove(g, b, c) ==
    IF RejectedAt(g, b, c) # 0
    THEN [game |-> g, ret |-> FALSE]
    ELSE [game |-> ApplyMove(g, b, c), ret |-> TRUE]

\* A loop that leaves out the entries makeMove rejects.
RECURSIVE ReplayLoop_SkipsRejected(_, _)
ReplayLoop_SkipsRejected(g, history) ==
    IF history = <<>>
    THEN <<>>
    ELSE LET m == Head(history)
             r == makeMove(g, m.board, m.cell)
         IN  (IF r.ret
              THEN << [board |-> m.board, cell |-> m.cell, player |-> m.player,
                       snapshot |-> getState(r.game)] >>
              ELSE <<>>) \o ReplayLoop_SkipsRejected(r.game, Tail(history))

\* The for-loop of buildSnapshots over the rest of the list, on the engine g.
RECURSIVE ReplayLoop(_, _)
ReplayLoop(g, history) ==
    IF history = <<>>
    THEN <<>>
    ELSE LET m  == Head(history)
             g2 == makeMove(g, m.board, m.cell).game
         IN  << [board |-> m.board, cell |-> m.cell, player |-> m.player,
                 snapshot |-> getState(g2)] >> \o ReplayLoop(g2, Tail(history))

\* A replay on the engine of the running game instead of a new one.
buildSnapshots_OnLiveGame(history) == ReplayLoop(game, history)

\* A replay whose new engine gives the first turn to O.
buildSnapshots_OFirst(history) == ReplayLoop([UTTT EXCEPT !.currentPlayer = "O"], history)

\* static buildSnapshots(history): const game = new UTTT(); ...
buildSnapshots(history) == ReplayLoop(UTTT, history)

(***************************************************************************)
(* The game client (static/js/game.js).                                    *)
(*                                                                         *)
(* The page is the variable `client`, a record with one field per `let` of *)
(* the script (lines 4-18) and one per part of its environment that the    *)
(* handlers read or write: the action button, the rendered board with the  *)
(* click handlers of its cells, the rendered move list, the running        *)
(* setInterval and setTimeout timers, and what the last handler emitted on *)
(* the socket.  Every function of the script is an operator over such      *)
(* records.  Sounds, colours, banners, the timer label, chat, the settings *)
(* and rules dialogs are not modelled.                                     *)
(*                                                                         *)
(* A null symbol is "null", a null timer id or historyIndex is -1, the     *)
(* empty object {} of gameState and an empty boardDiv are <<>>.  Times are *)
(* whole seconds; a falsy moveDeadline or serverNow is 0.                  *)
(***************************************************************************)

\* let ... (lines 4-18) and the page as the server rendered it.
Page ==
    [ mySymbol         |-> null,
      isSpectator      |-> FALSE,
      gameEnded        |-> FALSE,
      lastWinners      |-> [i \in Idx |-> null],
      gameState        |-> <<>>,
      timerInterval    |-> nullIdx,
      lastMoveCount    |-> 0,
      resignConfirming |-> FALSE,
      resignTimer      |-> nullIdx,
      historyIndex     |-> nullIdx,
      fullMoveHistory  |-> <<>>,
      actionBtn        |-> [textContent |-> "", disabled |-> FALSE, display |-> "inline-block"],
      boardDiv         |-> <<>>,
      moveHistoryList  |-> 0,       \* how many li.history-item the list holds
      intervals        |-> {},      \* running setInterval timers
      timeouts         |-> {},      \* pending setTimeout timers
      emitted          |-> <<>>,    \* what the last handler emitted on the socket
      animations       |-> 0,       \* showVictoryAnimation calls since the last rematchAgreed
      deadlineTimeouts |-> 0,       \* "timeout" messages since startTimer last armed a deadline
      handler          |-> "load" ] \* the handler that ran last

\* socket.emit(type, { room: ROOM, ... })
emit(cl, type, board, cell, symbol) ==
    [cl EXCEPT !.emitted = Append(@, [type |-> type, board |-> board, cell |-> cell, symbol |-> symbol])]

\* The start of a handler: nothing emitted yet.
Enter(cl, name) == [cl EXCEPT !.emitted = <<>>, !.handler = name]

\* The id setInterval or setTimeout returns: one that no timer and no variable holds.
FreshTimer(cl) ==
    LET used == {t.id : t \in cl.intervals} \cup {t.id : t \in cl.timeouts}
                    \cup {cl.timerInterval, cl.resignTimer}
    IN  Min({i \in 1..(Cardinality(used) + 1) : i \notin used})

clearInterval(cl, id) == [cl EXCEPT !.intervals = {t \in @ : t.id # id}]

clearTimeout(cl, id) == [cl EXCEPT !.timeouts = {t \in @ : t.id # id}]

\* function tick() of startTimer: rem = Math.max(0, Math.ceil((clientEndTime - Date.now()) / 1000))
tick(cl, clientEndTime, time) ==
    LET rem == IF clientEndTime > time THEN clientEndTime - time ELSE 0
    IN  IF rem = 0
        THEN LET c1 == clearInterval(cl, cl.timerInterval)
             IN  [emit(c1, "timeout", nullIdx, nullIdx, null) EXCEPT !.deadlineTimeouts = @ + 1]
        ELSE cl

\* function startTimer(deadline, serverNow)
startTimer(cl, deadline, serverNow, time) ==
    LET c1 == clearInterval(cl, cl.timerInterval)
    IN  IF deadline = 0
        THEN c1
        ELSE LET serverRemaining == deadline - (IF serverNow # 0 THEN serverNow ELSE deadline)
                 clientEndTime   == time + serverRemaining
                 c2 == tick([c1 EXCEPT !.deadlineTimeouts = 0], clientEndTime, time)
                 id == FreshTimer(c2)
             IN  [c2 EXCEPT !.timerInterval = id,
                            !.intervals = @ \cup {[id |-> id, clientEndTime |-> clientEndTime,
                                                   due |-> time + 1]}]

\* function updateMoveHistory(history): one li per entry
updateMoveHistory(cl, history) ==
    [cl EXCEPT !.fullMoveHistory = history, !.moveHistoryList = Len(history)]

\* function drawBoardGrid(state, justMoved, isHistoryView): the nine mini-boards, and
\* in each cell's onclick the state it was drawn from.
drawBoardGrid(cl, state, justMoved, isHistoryView) ==
    LET isMyTurn == /\ ~isHistoryView
                    /\ ~cl.isSpectator
                    /\ cl.mySymbol = state.player
                    /\ ~Truthy(state.gameWinner)
                    /\ state.started
        validBoards == IF ~isMyTurn THEN {}
                       ELSE IF state.forced # nullIdx THEN {state.forced}
                       ELSE {i \in Idx : ~Truthy(state.winners[i])}
    IN  [cl EXCEPT !.boardDiv =
            << [ state         |-> state,
                 justMoved     |-> justMoved,
                 isHistoryView |-> isHistoryView,
                 winBoard      |-> {b \in Idx : /\ ~isHistoryView
                                                /\ state.winners[b] \in {"X", "O"}
                                                /\ cl.lastWinners[b] # state.winners[b]},
                 noClick       |-> {bc \in Idx \X Idx :
                                       /\ isMyTurn
                                       /\ \/ bc[1] \notin validBoards
                                          \/ Truthy(state.winners[bc[1]])
                                          \/ Truthy(state.boards[bc[1]][bc[2]])} ] >>]

\* function drawSnapshot(snapshot)
drawSnapshot(cl, snapshot) ==
    drawBoardGrid(cl,
                  [ boards        |-> snapshot.boards,
                    winners       |-> snapshot.winners,
                    boardWinLines |-> snapshot.boardWinLines,
                    forced        |-> nullIdx,
                    lastMove      |-> snapshot.lastMove,
                    gameWinner    |-> snapshot.gameWinner,
                    gameWinLine   |-> snapshot.gameWinLine,
                    player        |-> snapshot.player,
                    started       |-> TRUE ],
                  FALSE, TRUE)

\* What drawBoardGrid reads of a "state" payload.
Grid(state) ==
    [ boards        |-> state.boards,
      winners       |-> state.winners,
      boardWinLines |-> state.boardWinLines,
      forced        |-> state.forced,
      lastMove      |-> state.lastMove,
      gameWinner    |-> state.gameWinner,
      gameWinLine   |-> state.gameWinLine,
      player        |-> state.player,
      started       |-> state.started ]

\* A selectHistory that trusts its argument.
selectHistory_NoRangeCheck(cl, index) ==
    LET c1 == [cl EXCEPT !.historyIndex = index]
    IN  IF index >= 0 /\ index < Len(c1.fullMoveHistory)
        THEN drawSnapshot(c1, c1.fullMoveHistory[index + 1].snapshot)
        ELSE c1

\* function selectHistory(index)
selectHistory(cl, index) ==
    IF index < 0 \/ index >= Len(cl.fullMoveHistory)
    THEN cl
    ELSE LET c1 == [cl EXCEPT !.historyIndex = index]
         IN  drawSnapshot(c1, c1.fullMoveHistory[index + 1].snapshot)

\* function exitHistory()
exitHistory(cl) ==
    LET c1 == [cl EXCEPT !.historyIndex = nullIdx]
    IN  IF c1.gameState # <<>>
        THEN [drawBoardGrid(c1, Grid(c1.gameState[1]), FALSE, FALSE)
                 EXCEPT !.lastWinners = c1.gameState[1].winners]
        ELSE c1

\* document.addEventListener('keydown', e => ...); inChat: e.target === chatInput
keydown(cl, key, inChat) ==
    IF inChat \/ Len(cl.fullMoveHistory) = 0 THEN cl
    ELSE IF key = "ArrowLeft"
         THEN IF cl.historyIndex = nullIdx THEN selectHistory(cl, Len(cl.fullMoveHistory) - 1)
              ELSE IF cl.historyIndex > 0 THEN selectHistory(cl, cl.historyIndex - 1)
              ELSE cl
    ELSE IF key = "ArrowRight"
         THEN IF cl.historyIndex # nullIdx
              THEN IF cl.historyIndex < Len(cl.fullMoveHistory) - 1
                   THEN selectHistory(cl, cl.historyIndex + 1)
                   ELSE exitHistory(cl)
              ELSE cl
    ELSE IF key = "Escape"
         THEN IF cl.historyIndex # nullIdx THEN exitHistory(cl) ELSE cl
    ELSE cl

\* function resetResignConfirm()
resetResignConfirm(cl) ==
    LET c1 == clearTimeout([cl EXCEPT !.resignConfirming = FALSE], cl.resignTimer)
    IN  IF c1.actionBtn.textContent \in {"Sure?", "Resign"}
        THEN [c1 EXCEPT !.actionBtn.textContent = "Resign", !.actionBtn.disabled = FALSE]
        ELSE c1

\* The seconds a first click on Resign stays armed: setTimeout(..., 3000)
ResignConfirmSeconds == 3

\* An onclick that resigns on the first click.
actionBtnOnclick_OneClick(cl, time) ==
    IF cl.isSpectator THEN cl
    ELSE IF cl.actionBtn.textContent = "Start" THEN emit(cl, "ready", nullIdx, nullIdx, null)
    ELSE IF cl.actionBtn.textContent \in {"Resign", "Sure?"}
         THEN emit(clearTimeout([cl EXCEPT !.resignConfirming = FALSE], cl.resignTimer),
                   "resign", nullIdx, nullIdx, cl.mySymbol)
    ELSE cl

\* actionBtn.onclick = () => ...
actionBtnOnclick(cl, time) ==
    IF cl.isSpectator THEN cl
    ELSE IF cl.actionBtn.textContent = "Start" THEN emit(cl, "ready", nullIdx, nullIdx, null)
    ELSE IF cl.actionBtn.textContent \in {"Resign", "Sure?"}
         THEN IF ~cl.resignConfirming
              THEN LET id == FreshTimer(cl)
                   IN  [cl EXCEPT !.resignConfirming = TRUE,
                                  !.actionBtn.textContent = "Sure?",
                                  !.resignTimer = id,
                                  !.timeouts = @ \cup {[id |-> id, due |-> time + ResignConfirmSeconds]}]
              ELSE emit(clearTimeout([cl EXCEPT !.resignConfirming = FALSE], cl.resignTimer),
                        "resign", nullIdx, nullIdx, cl.mySymbol)
    ELSE cl

\* The callback of resignTimer = setTimeout(() => ..., 3000)
resignTimerCallback(cl) ==
    [cl EXCEPT !.resignConfirming = FALSE, !.actionBtn.textContent = "Resign"]

\* socket.on("gameStatus", data => ...): data.button_action and data.button_rematch, null when absent
gameStatus(cl, button_action, button_rematch) ==
    LET c1 == IF button_action = null THEN cl
              ELSE LET r == resetResignConfirm([cl EXCEPT !.actionBtn.display = "inline-block"])
                   IN  IF button_action = "start"
                       THEN [r EXCEPT !.actionBtn.textContent = "Start", !.actionBtn.disabled = FALSE]
                       ELSE IF button_action = "waiting"
                       THEN [r EXCEPT !.actionBtn.textContent = "Waiting...", !.actionBtn.disabled = TRUE]
                       ELSE IF button_action = "resign"
                       THEN [r EXCEPT !.actionBtn.textContent = "Resign", !.actionBtn.disabled = FALSE]
                       ELSE IF button_action = "hidden"
                       THEN [r EXCEPT !.actionBtn.display = "none"]
                       ELSE r
    IN  IF button_rematch = null THEN c1 ELSE [c1 EXCEPT !.actionBtn.display = "none"]

\* A rematchAgreed handler that leaves the history view as it is.
rematchAgreed_KeepsIndex(cl) ==
    LET c1 == [cl EXCEPT !.gameEnded = FALSE,
                         !.lastWinners = [i \in Idx |-> null],
                         !.lastMoveCount = 0,
                         !.fullMoveHistory = <<>>]
    IN  resetResignConfirm(clearInterval(c1, c1.timerInterval))

\* socket.on("rematchAgreed", () => ...)
rematchAgreed(cl) ==
    LET c1 == [cl EXCEPT !.gameEnded = FALSE,
                         !.lastWinners = [i \in Idx |-> null],
                         !.lastMoveCount = 0,
                         !.historyIndex = nullIdx,
                         !.fullMoveHistory = <<>>]
    IN  resetResignConfirm(clearInterval(c1, c1.timerInterval))

\* function showVictoryAnimation(winner)
showVictoryAnimation(cl, winner) == [cl EXCEPT !.animations = @ + 1]

\* draw, lines 483-498: the timer
drawTimer(cl, state, time) ==
    IF state.started /\ ~Truthy(state.gameWinner) /\ state.moveDeadline # 0
    THEN startTimer(cl, state.moveDeadline, state.serverNow, time)
    ELSE clearInterval(cl, cl.timerInterval)

\* A draw that celebrates every state that carries a winner.
drawVictory_EveryState(cl, state) ==
    LET c1 == IF Truthy(state.gameWinner) /\ ~cl.isSpectator
              THEN showVictoryAnimation(cl, state.gameWinner)
              ELSE cl
    IN  [c1 EXCEPT !.gameEnded = Truthy(state.gameWinner)]

\* draw, lines 502-505: the victory animation
drawVictory(cl, state) ==
    LET c1 == IF Truthy(state.gameWinner) /\ ~cl.gameEnded /\ ~cl.isSpectator
              THEN showVictoryAnimation(cl, state.gameWinner)
              ELSE cl
    IN  [c1 EXCEPT !.gameEnded = Truthy(state.gameWinner)]

\* A draw that redraws the board while a historical move is viewed.
drawBoard_OverHistory(cl, state) ==
    LET newMoveCount == Len(state.moveHistory)
        justMoved    == newMoveCount > cl.lastMoveCount
        c1           == [cl EXCEPT !.lastMoveCount = newMoveCount]
    IN  [drawBoardGrid(c1, Grid(state), justMoved, FALSE) EXCEPT !.lastWinners = state.winners]

\* draw, lines 507-514: the board
drawBoard(cl, state) ==
    IF cl.historyIndex # nullIdx THEN cl
    ELSE LET newMoveCount == Len(state.moveHistory)
             justMoved    == newMoveCount > cl.lastMoveCount
             c1           == [cl EXCEPT !.lastMoveCount = newMoveCount]
         IN  [drawBoardGrid(c1, Grid(state), justMoved, FALSE) EXCEPT !.lastWinners = state.winners]

\* function draw(state)
draw(cl, state, time) ==
    drawBoard(drawVictory(updateMoveHistory(drawTimer(cl, state, time), state.moveHistory), state), state)

\* socket.on("state", newState => { gameState = newState; draw(newState); })
onState(cl, newState, time) == draw([cl EXCEPT !.gameState = <<newState>>], newState, time)

\* cell.onclick of the cell (b, c) of the rendered board
cellOnclick(cl, b, c) ==
    LET state == cl.boardDiv[1].state
    IN  IF ~cl.isSpectator /\ cl.mySymbol = state.player /\ ~Truthy(state.gameWinner) /\ state.started
        THEN emit(cl, "move", b, c, null)
        ELSE cl

\* The "state" payload the server broadcasts for the engine g: its getState() with
\* the room's started flag, the move list and the move deadline.
ServerState(g, started, moveDeadline, serverNow) ==
    [ boards        |-> getState(g).boards,
      winners       |-> getState(g).winners,
      boardWinLines |-> getState(g).boardWinLines,
      forced        |-> getState(g).forced,
      lastMove      |-> getState(g).lastMove,
      player        |-> getState(g).player,
      gameWinner    |-> getState(g).gameWinner,
      gameWinLine   |-> getState(g).gameWinLine,
      started       |-> started,
      moveHistory   |-> g.moveHistory,
      moveDeadline  |-> moveDeadline,
      serverNow     |-> serverNow ]

(***************************************************************************)
(* The callers.  They follow one of the recorded games below (each a legal *)
(* game played from the empty board) and make at most MaxOffScript calls   *)
(* that are not its next move: any move that makeMove accepts, which       *)
(* leaves the recorded games for good, or, for each of the four early      *)
(* returns that can fire in the state, the first <<b, c>> that it rejects. *)
(***************************************************************************)
MaxOffScript == 1

\* A centre opening.
\* X completes the meta column 0,3,6.
\* O completes the meta row 6,7,8.
\* All nine sub-boards close without a meta line: 5-4, 4-5, and 4-4 with one drawn sub-board.
\* Sub-boards 0,1,2 are drawn and X wins 3,4,5 (move 55); then O wins 6,7,8 / X wins 6.
GameCentre ==
    << <<4,4>>, <<4,0>>, <<0,4>> >>

GameXLine ==
    << <<0,5>>, <<5,3>>, <<3,4>>, <<4,0>>, <<0,2>>, <<2,5>>, <<5,1>>, <<1,6>>, <<6,8>>, <<8,6>>,
       <<6,7>>, <<7,6>>, <<6,6>>, <<4,3>>, <<3,6>>, <<3,7>>, <<7,7>>, <<7,0>>, <<0,8>>, <<8,5>>,
       <<5,2>>, <<2,3>>, <<3,2>> >>

GameOLine ==
    << <<3,8>>, <<8,1>>, <<1,4>>, <<4,0>>, <<0,8>>, <<8,7>>, <<7,8>>, <<8,4>>, <<4,6>>, <<6,4>>,
       <<4,7>>, <<7,4>>, <<4,3>>, <<3,3>>, <<3,7>>, <<7,3>>, <<3,6>>, <<6,5>>, <<5,3>>, <<7,5>>,
       <<5,6>>, <<6,3>> >>

GameMajorityX ==
    << <<8,2>>, <<2,2>>, <<2,3>>, <<3,5>>, <<5,4>>, <<4,0>>, <<0,3>>, <<3,7>>, <<7,4>>, <<4,2>>,
       <<2,6>>, <<6,0>>, <<0,2>>, <<2,5>>, <<5,8>>, <<8,1>>, <<1,0>>, <<0,0>>, <<0,8>>, <<8,6>>,
       <<6,5>>, <<5,1>>, <<1,6>>, <<6,6>>, <<6,4>>, <<4,1>>, <<1,3>>, <<3,1>>, <<8,3>>, <<3,0>>,
       <<0,5>>, <<5,5>>, <<5,0>>, <<8,4>>, <<7,2>>, <<2,8>>, <<8,8>>, <<8,0>>, <<7,3>>, <<3,2>>,
       <<7,0>>, <<8,5>>, <<6,3>>, <<7,7>>, <<7,8>>, <<8,7>> >>

GameMajorityO ==
    << <<0,3>>, <<3,0>>, <<0,6>>, <<6,2>>, <<2,6>>, <<6,0>>, <<0,0>>, <<2,5>>, <<5,3>>, <<3,3>>,
       <<3,7>>, <<7,1>>, <<1,8>>, <<8,1>>, <<1,6>>, <<6,1>>, <<1,3>>, <<3,6>>, <<7,6>>, <<1,1>>,
       <<1,5>>, <<5,8>>, <<8,8>>, <<8,7>>, <<7,8>>, <<8,2>>, <<2,4>>, <<4,5>>, <<5,0>>, <<4,3>>,
       <<5,1>>, <<1,7>>, <<7,4>>, <<4,2>>, <<2,8>>, <<8,0>>, <<2,1>>, <<1,4>>, <<4,7>>, <<7,3>>,
       <<2,2>>, <<7,5>>, <<5,6>>, <<4,4>>, <<7,0>> >>

GameMajorityTie ==
    << <<4,5>>, <<5,2>>, <<2,0>>, <<0,3>>, <<3,4>>, <<4,2>>, <<2,4>>, <<4,3>>, <<3,0>>, <<0,6>>,
       <<6,0>>, <<0,0>>, <<2,7>>, <<7,6>>, <<6,4>>, <<4,8>>, <<8,4>>, <<4,0>>, <<2,8>>, <<8,6>>,
       <<6,8>>, <<8,1>>, <<1,4>>, <<4,6>>, <<3,5>>, <<5,0>>, <<1,1>>, <<1,6>>, <<3,7>>, <<7,7>>,
       <<7,0>>, <<3,1>>, <<1,5>>, <<5,1>>, <<1,7>>, <<7,4>>, <<8,7>>, <<7,8>>, <<8,0>>, <<8,3>>,
       <<3,3>>, <<8,8>>, <<8,2>>, <<8,5>> >>

GameDrawnRow ==
    << <<3,2>>, <<2,1>>, <<1,0>>, <<0,2>>, <<2,0>>, <<0,0>>, <<0,1>>, <<1,1>>, <<1,2>>, <<2,5>>,
       <<5,1>>, <<1,5>>, <<5,2>>, <<2,6>>, <<6,1>>, <<1,6>>, <<6,0>>, <<0,3>>, <<3,1>>, <<1,4>>,
       <<4,0>>, <<0,7>>, <<7,2>>, <<2,4>>, <<4,4>>, <<4,1>>, <<1,8>>, <<8,1>>, <<1,3>>, <<3,0>>,
       <<0,4>>, <<4,2>>, <<2,8>>, <<8,0>>, <<0,6>>, <<6,2>>, <<2,7>>, <<7,1>>, <<1,7>>, <<7,0>>,
       <<0,5>>, <<5,3>>, <<3,4>>, <<4,6>>, <<6,8>>, <<8,2>>, <<2,3>>, <<3,8>>, <<5,0>>, <<0,8>>,
       <<3,6>>, <<6,5>>, <<2,2>>, <<4,3>>, <<4,8>>, <<7,3>>, <<7,4>>, <<6,6>>, <<6,7>>, <<7,6>>,
       <<6,3>>, <<6,4>> >>

GameDrawnRowX ==
    << <<3,2>>, <<2,1>>, <<1,0>>, <<0,2>>, <<2,0>>, <<0,0>>, <<0,1>>, <<1,1>>, <<1,2>>, <<2,5>>,
       <<5,1>>, <<1,5>>, <<5,2>>, <<2,6>>, <<6,1>>, <<1,6>>, <<6,0>>, <<0,3>>, <<3,1>>, <<1,4>>,
       <<4,0>>, <<0,7>>, <<7,2>>, <<2,4>>, <<4,4>>, <<4,1>>, <<1,8>>, <<8,1>>, <<1,3>>, <<3,0>>,
       <<0,4>>, <<4,2>>, <<2,8>>, <<8,0>>, <<0,6>>, <<6,2>>, <<2,7>>, <<7,1>>, <<1,7>>, <<7,0>>,
       <<0,5>>, <<5,3>>, <<3,4>>, <<4,6>>, <<6,8>>, <<8,2>>, <<2,3>>, <<3,8>>, <<5,0>>, <<0,8>>,
       <<3,6>>, <<6,5>>, <<2,2>>, <<4,3>>, <<4,8>>, <<7,4>>, <<6,4>>, <<7,7>> >>

\* X completes the column 2,5,8 and the diagonal 0,4,8 of sub-board 3 with one move.
GameTwoLines ==
    << <<3,4>>, <<4,3>>, <<3,5>>, <<5,3>>, <<3,2>>, <<2,3>>, <<3,0>>, <<0,3>>, <<3,8>> >>

\* O wins sub-board 6 and completes the meta row 6,7,8 and the meta column 0,3,6 at once.
GameTwoMetaLines ==
    << <<4,8>>, <<8,0>>, <<0,3>>, <<3,4>>, <<4,3>>, <<3,6>>, <<6,0>>, <<0,7>>, <<7,0>>, <<0,8>>,
       <<8,8>>, <<8,1>>, <<1,2>>, <<2,2>>, <<2,6>>, <<6,6>>, <<6,3>>, <<3,2>>, <<2,8>>, <<8,2>>,
       <<2,3>>, <<7,2>>, <<2,7>>, <<7,1>>, <<1,0>>, <<0,6>>, <<6,7>>, <<7,8>>, <<1,3>>, <<6,4>>,
       <<4,2>>, <<6,1>>, <<1,5>>, <<5,2>>, <<1,7>>, <<7,5>>, <<5,6>>, <<6,2>> >>

\* All 81 cells are filled; the 81st move gives X the meta row 0,1,2.
GameFullBoard ==
    << <<1,0>>, <<0,8>>, <<8,6>>, <<6,4>>, <<4,8>>, <<8,1>>, <<1,8>>, <<8,2>>, <<2,7>>, <<7,8>>,
       <<8,7>>, <<7,5>>, <<5,8>>, <<8,4>>, <<4,6>>, <<6,1>>, <<1,6>>, <<6,3>>, <<3,6>>, <<6,2>>,
       <<2,4>>, <<4,5>>, <<5,3>>, <<3,7>>, <<7,2>>, <<2,5>>, <<5,2>>, <<2,8>>, <<8,0>>, <<0,0>>,
       <<0,5>>, <<5,7>>, <<7,4>>, <<4,1>>, <<1,5>>, <<5,4>>, <<4,0>>, <<0,6>>, <<6,7>>, <<7,3>>,
       <<3,5>>, <<5,6>>, <<6,5>>, <<5,5>>, <<5,1>>, <<1,2>>, <<2,6>>, <<6,8>>, <<8,5>>, <<5,0>>,
       <<0,4>>, <<4,3>>, <<3,8>>, <<8,3>>, <<3,3>>, <<3,2>>, <<2,3>>, <<3,4>>, <<4,2>>, <<2,1>>,
       <<1,1>>, <<1,3>>, <<3,1>>, <<1,7>>, <<7,0>>, <<0,1>>, <<1,4>>, <<4,7>>, <<7,7>>, <<7,1>>,
       <<6,6>>, <<6,0>>, <<0,7>>, <<7,6>>, <<0,2>>, <<2,0>>, <<0,3>>, <<3,0>>, <<4,4>>, <<8,8>>,
       <<2,2>> >>

Games == { GameCentre, GameXLine, GameOLine, GameMajorityX, GameMajorityO, GameMajorityTie,
           GameDrawnRow, GameDrawnRowX, GameTwoLines, GameTwoMetaLines, GameFullBoard }

\* The move <<b, c>> is the next move of a recorded game that has been followed so far.
OnScript(b, c) ==
    \E s \in Games :
        /\ Len(s) > Len(acceptedMoves)
        /\ SubSeq(s, 1, Len(acceptedMoves)) = acceptedMoves
        /\ s[Len(acceptedMoves) + 1] = <<b, c>>

Init ==
    /\ game = UTTT
    /\ result = "none"
    /\ acceptedMoves = <<>>
    /\ offScript = 0
    /\ replays = <<>>
    /\ held = <<>>
    /\ overwrites = 0
    /\ client = Page
    /\ now = 0

\* The first <<b, c>>, in row-major order, among those the same early return rejects.
FirstRejected(b, c) ==
    \A b2 \in Idx, c2 \in Idx :
        RejectedAt(game, b2, c2) = RejectedAt(game, b, c) => (b2 > b \/ (b2 = b /\ c2 >= c))

\* The calls the callers make in the current state.
Tried(b, c) ==
    \/ OnScript(b, c)
    \/ /\ offScript < MaxOffScript
       /\ RejectedAt(game, b, c) = 0 \/ FirstRejected(b, c)

\* A call game.makeMove(b, c) on the live engine.
MakeMove(b, c) ==
    /\ Tried(b, c)
    /\ \E r \in {makeMove(game, b, c)} :
          /\ game' = r.game
          /\ result' = IF r.ret THEN "true" ELSE "false"
          /\ acceptedMoves' = IF r.ret THEN Append(acceptedMoves, <<b, c>>) ELSE acceptedMoves
          /\ offScript' = IF OnScript(b, c) THEN offScript ELSE offScript + 1
    /\ UNCHANGED <<replays, held, overwrites, client, now>>

Next == \E b \in Idx, c \in Idx : MakeMove(b, c)

Spec == Init /\ [][Next]_vars

(***************************************************************************)
(* Two players who never stop: they follow a recorded game or, at any time   *)
(* and from then on, play the first move in row-major order that makeMove    *)
(* accepts.  A click is handled when it is made, so a move that stays        *)
(* possible is made eventually: weak fairness of the move.                   *)
(***************************************************************************)
\* A call game.makeMove(b, c) that is accepted.
PlayOn(b, c) ==
    /\ OnScript(b, c) \/ FirstRejected(b, c)
    /\ \E r \in {makeMove(game, b, c)} :
          /\ r.ret
          /\ game' = r.game
          /\ result' = "true"
          /\ acceptedMoves' = Append(acceptedMoves, <<b, c>>)
          /\ offScript' = IF OnScript(b, c) THEN offScript ELSE offScript + 1
    /\ UNCHANGED <<replays, held, overwrites, client, now>>

NextFair == \E b \in Idx, c \in Idx : PlayOn(b, c)

\* The list of accepted moves grows by a move of PlayOn: what a step of NextFair does
\* to acceptedMoves, enabled exactly when the players have a move that is accepted.
AcceptedMove ==
    \E b \in Idx, c \in Idx :
        /\ OnScript(b, c) \/ FirstRejected(b, c)
        /\ RejectedAt(game, b, c) = 0
        /\ acceptedMoves' = Append(acceptedMoves, <<b, c>>)

SpecFair == Init /\ [][NextFair]_vars /\ WF_acceptedMoves(AcceptedMove)

(***************************************************************************)
(* The replay viewer beside a running game: the live engine plays the       *)
(* recorded games while UTTT.buildSnapshots is called, at most MaxReplays   *)
(* times, on move lists of ReplayLists.                                    *)
(***************************************************************************)
MaxReplays == 2

\* A list of {board, cell, player} entries, the players alternating from X.
AsHistory(moves) ==
    [k \in 1..Len(moves) |->
        [board |-> moves[k][1], cell |-> moves[k][2], player |-> IF k % 2 = 1 THEN "X" ELSE "O"]]

\* The empty log, a legal opening, a log with an entry outside the forced board and an
\* entry on an occupied cell, a finished game followed by one more entry, and a log
\* with two entries on a sub-board that O has closed.
ReplayLists ==
    { AsHistory(<<>>),
      AsHistory(GameCentre),
      AsHistory(<< <<4,4>>, <<0,0>>, <<4,4>>, <<4,8>> >>),
      AsHistory(GameXLine \o << <<1,1>> >>),
      AsHistory(<< <<4,4>>, <<4,0>>, <<0,4>>, <<4,1>>, <<1,4>>, <<4,2>>, <<4,5>>, <<2,4>>,
                   <<4,8>>, <<0,0>> >>) }

\* A call UTTT.buildSnapshots(history).
BuildSnapshots(history) ==
    /\ Len(replays) < MaxReplays
    /\ replays' = Append(replays, [history |-> history, snapshots |-> buildSnapshots(history)])
    /\ UNCHANGED <<game, result, acceptedMoves, offScript, held, overwrites, client, now>>

\* A call game.makeMove(b, c) by callers that never leave the recorded games.
PlayRecorded(b, c) ==
    /\ OnScript(b, c)
    /\ MakeMove(b, c)

NextReplay ==
    \/ \E b \in Idx, c \in Idx : PlayRecorded(b, c)
    \/ \E history \in ReplayLists : BuildSnapshots(history)

SpecReplay == Init /\ [][NextReplay]_vars

(***************************************************************************)
(* A display beside a running game: the recorded games are played and the   *)
(* caller reads the position with game.getState() whenever it likes,        *)
(* keeping the value of its last call.                                      *)
(***************************************************************************)
\* A call game.getState() on the live engine.
GetState ==
    /\ held' = <<getState(game)>>
    /\ UNCHANGED <<game, result, acceptedMoves, offScript, replays, overwrites, client, now>>

NextView ==
    \/ \E b \in Idx, c \in Idx : PlayRecorded(b, c)
    \/ GetState

SpecView == Init /\ [][NextView]_vars

(***************************************************************************)
(* Callers that pass integers outside 0..8, as a damaged match log may hold. *)
(* In JavaScript an array read at an index the array does not have gives    *)
(* undefined, and reading an element of undefined throws a TypeError.       *)
(***************************************************************************)
MaxArg == 9

Args == (0 - 1)..MaxArg

\* makeMove(b, c) for any integers b and c: the engine after the call and how the
\* call ends, "true" or "false" for the value returned, "TypeError" for the throw.
\*   this.boardWinners[b]  is undefined, so falsy, when b is outside 0..8;
\*   b !== this.forcedBoard holds when forcedBoard is a sub-board and b is none;
\*   this.boards[b][c]     throws when b is outside 0..8 (this.boards[b] is undefined)
\*                         and is undefined, so !== null, when only c is outside 0..8.
makeMoveAnyArgs(g, b, c) ==
    IF b \in Idx /\ c \in Idx
    THEN [game |-> makeMove(g, b, c).game,
          ret  |-> IF makeMove(g, b, c).ret THEN "true" ELSE "false"]
    ELSE IF Truthy(g.gameWinner) THEN [game |-> g, ret |-> "false"]
    ELSE IF b \in Idx /\ Truthy(g.boardWinners[b]) THEN [game |-> g, ret |-> "false"]
    ELSE IF g.forcedBoard # nullIdx /\ b # g.forcedBoard THEN [game |-> g, ret |-> "false"]
    ELSE IF b \notin Idx THEN [game |-> g, ret |-> "TypeError"]
    ELSE [game |-> g, ret |-> "false"]

\* A call game.makeMove(b, c) with an argument outside 0..8.
CallAnyArgs(b, c) ==
    /\ offScript < MaxOffScript
    /\ b \notin Idx \/ c \notin Idx
    /\ game' = makeMoveAnyArgs(game, b, c).game
    /\ result' = makeMoveAnyArgs(game, b, c).ret
    /\ offScript' = offScript + 1
    /\ UNCHANGED <<acceptedMoves, replays, held, overwrites, client, now>>

NextAnyArgs ==
    \/ \E b \in Idx, c \in Idx : PlayRecorded(b, c)
    \/ \E b \in Args, c \in Args : CallAnyArgs(b, c)

SpecAnyArgs == Init /\ [][NextAnyArgs]_vars

(***************************************************************************)
(* A caller that writes into the snapshots of moveHistory while the         *)
(* recorded games are played.  A JavaScript array is an object: a write     *)
(* through one reference is seen through every other reference to it.       *)
(* getState makes new arrays with boards.map(r => [...r]),                  *)
(* [...this.boardWinners], [...this.boardWinLines], [...this.lastMove] and  *)
(* [...this.gameWinLine].  The spread of boardWinLines copies its nine      *)
(* elements, which are null or references to the line arrays that makeMove  *)
(* stored in the engine: the line arrays themselves are not copied.         *)
(***************************************************************************)
MaxOverwrites == 1

ArrayKinds == {"row", "winners", "boardWinLines", "winLine", "lastMove", "gameWinLine"}

\* array[0] = 9 on an array of indices.
WriteIndex(array) == [array EXCEPT ![1] = 9]

\* The snapshot s after a write into one of the arrays getState made for it alone:
\* s.boards[i][0] = '?', s.winners[i] = '?', s.boardWinLines[i] = null,
\* s.lastMove[0] = 9 or s.gameWinLine[0] = 9.
WriteOwnArray(s, arr, i) ==
    CASE arr = "row"           -> [s EXCEPT !.boards[i][0] = "?"]
      [] arr = "winners"       -> [s EXCEPT !.winners[i] = "?"]
      [] arr = "boardWinLines" -> [s EXCEPT !.boardWinLines[i] = nullLine]
      [] arr = "lastMove"      -> [s EXCEPT !.lastMove = WriteIndex(@)]
      [] arr = "gameWinLine"   -> [s EXCEPT !.gameWinLine = WriteIndex(@)]

\* The engine g after s.boardWinLines[i][0] = 9 on one of its snapshots s.  The array
\* written is the one checkWin made and makeMove stored in this.boardWinLines[i]; the
\* engine and every snapshot taken since then refer to it.
WriteWinLine(g, i) ==
    [g EXCEPT !.boardWinLines[i] = WriteIndex(@),
              !.moveHistory =
                  [j \in 1..Len(g.moveHistory) |->
                      IF g.moveHistory[j].snapshot.boardWinLines[i] = nullLine
                      THEN g.moveHistory[j]
                      ELSE [g.moveHistory[j] EXCEPT !.snapshot.boardWinLines[i] = WriteIndex(@)]]]

\* The writes the caller makes: into the snapshot of the latest entry, on the row, the
\* outcome and the line slot of the sub-board just played, or on any line it holds.
Inspected(k, arr, i) ==
    /\ k = Len(game.moveHistory)
    /\ arr # "winLine" => i = game.moveHistory[k].board

\* A write into element 0 (element i of the outer arrays) of an array reachable from
\* game.moveHistory[k].snapshot.
Overwrite(k, arr, i) ==
    /\ overwrites < MaxOverwrites
    /\ k \in 1..Len(game.moveHistory)
    /\ Inspected(k, arr, i)
    /\ arr = "winLine" => game.moveHistory[k].snapshot.boardWinLines[i] # nullLine
    /\ arr = "gameWinLine" => game.moveHistory[k].snapshot.gameWinLine # nullLine
    /\ game' = IF arr = "winLine"
               THEN WriteWinLine(game, i)
               ELSE [game EXCEPT !.moveHistory[k].snapshot = WriteOwnArray(@, arr, i)]
    /\ overwrites' = overwrites + 1
    /\ UNCHANGED <<result, acceptedMoves, offScript, replays, held, client, now>>

NextAlias ==
    \/ \E b \in Idx, c \in Idx : PlayRecorded(b, c)
    \/ \E k \in 1..81, arr \in ArrayKinds, i \in Idx : Overwrite(k, arr, i)

SpecAlias == Init /\ [][NextAlias]_vars

(***************************************************************************)
(* The page in its room.  The server (not part of the client script) owns  *)
(* the engine `game`: it applies the moves of a recorded game and          *)
(* broadcasts "state" after each, may broadcast the same state again, and  *)
(* replaces the engine by a new one when it announces a rematch.           *)
(***************************************************************************)

\* The longest Date.now() the specifications let the page's clock reach.
MaxNow == 5

\* The seconds a player has for a move in the timed room.
MoveTimeout == 2

engineVars == <<game, result, acceptedMoves, offScript, replays, held, overwrites>>

\* (b, c) is the next move of one of the recorded games `games`.
NextOf(games, b, c) ==
    \E s \in games :
        /\ Len(s) > Len(acceptedMoves)
        /\ SubSeq(s, 1, Len(acceptedMoves)) = acceptedMoves
        /\ s[Len(acceptedMoves) + 1] = <<b, c>>

\* socket.on("assign", s => ...), once, when the page joins its room
Assign(s) ==
    /\ client.mySymbol = null
    /\ ~client.isSpectator
    /\ client' = [Enter(client, "assign") EXCEPT !.mySymbol = s]
    /\ UNCHANGED <<engineVars, now>>

\* socket.on("spectator", () => ...), for a page that was assigned no symbol
Spectator ==
    /\ client.mySymbol = null
    /\ ~client.isSpectator
    /\ client' = [Enter(client, "spectator") EXCEPT !.isSpectator = TRUE, !.actionBtn.display = "none"]
    /\ UNCHANGED <<engineVars, now>>

\* socket.on("state", ...) with the broadcast that follows the move (b, c) on the server
StateAfterMove(games, b, c, moveDeadline, serverNow) ==
    /\ NextOf(games, b, c)
    /\ \E r \in {makeMove(game, b, c)} :
          /\ r.ret
          /\ game' = r.game
          /\ result' = "true"
          /\ acceptedMoves' = Append(acceptedMoves, <<b, c>>)
          /\ client' = onState(Enter(client, "state"),
                               ServerState(r.game, TRUE, moveDeadline, serverNow), now)
    /\ UNCHANGED <<offScript, replays, held, overwrites, now>>

\* socket.on("state", ...) with a broadcast of the state the server is in
StateAgain(started, moveDeadline, serverNow) ==
    /\ started \/ acceptedMoves = <<>>
    /\ client' = onState(Enter(client, "state"),
                         ServerState(game, started, moveDeadline, serverNow), now)
    /\ UNCHANGED <<engineVars, now>>

\* socket.on("rematchAgreed", ...), the server starting over with a new engine
RematchAgreed ==
    /\ acceptedMoves # <<>>
    /\ game' = UTTT
    /\ result' = "none"
    /\ acceptedMoves' = <<>>
    /\ client' = [rematchAgreed(Enter(client, "rematchAgreed")) EXCEPT !.animations = 0]
    /\ UNCHANGED <<offScript, replays, held, overwrites, now>>

\* socket.on("gameStatus", ...)
GameStatus(button_action, button_rematch) ==
    /\ client' = gameStatus(Enter(client, IF button_action = null THEN "gameStatus"
                                                                  ELSE "gameStatus with button_action"),
                            button_action, button_rematch)
    /\ UNCHANGED <<engineVars, now>>

\* A click on the action button, which takes one when it is shown and enabled
ActionClick ==
    /\ client.actionBtn.display # "none"
    /\ ~client.actionBtn.disabled
    /\ client' = actionBtnOnclick(Enter(client, "actionClick"), now)
    /\ UNCHANGED <<engineVars, now>>

\* The resign timer fires
ResignTimeout ==
    /\ \E t \in client.timeouts :
          /\ t.due <= now
          /\ client' = resignTimerCallback([Enter(client, "resignTimeout") EXCEPT !.timeouts = @ \ {t}])
    /\ UNCHANGED <<engineVars, now>>

\* The interval timer of startTimer fires
Tick ==
    /\ \E t \in client.intervals :
          /\ t.due <= now
          /\ client' = [tick(Enter(client, "tick"), t.clientEndTime, now) EXCEPT
                           !.intervals = {IF u.id = t.id THEN [u EXCEPT !.due = now + 1] ELSE u : u \in @}]
    /\ UNCHANGED <<engineVars, now>>

\* A second passes with no timer due
Advance ==
    /\ now < MaxNow
    /\ \A t \in client.intervals \cup client.timeouts : t.due > now
    /\ now' = now + 1
    /\ UNCHANGED <<engineVars, client>>

\* A key pressed on the page
KeyDown(key, inChat) ==
    /\ client' = keydown(Enter(client, IF inChat THEN "keydown in chatInput" ELSE key), key, inChat)
    /\ UNCHANGED <<engineVars, now>>

\* li.onclick of the i-th item of the move list
ListClick(i) ==
    /\ i < client.moveHistoryList
    /\ client' = selectHistory(Enter(client, "listClick"), i)
    /\ UNCHANGED <<engineVars, now>>

\* historyReturnBtn.onclick = exitHistory
ReturnClick ==
    /\ client.historyIndex # nullIdx
    /\ client' = exitHistory(Enter(client, "returnClick"))
    /\ UNCHANGED <<engineVars, now>>

\* The cells of the rendered board the user clicks.
ClickedCells == {<<0, 3>>, <<3, 4>>, <<4, 4>>}

\* A click on the cell (b, c) of the rendered board, unless the cell is no-click
CellClick(b, c) ==
    /\ client.boardDiv # <<>>
    /\ <<b, c>> \in ClickedCells
    /\ <<b, c>> \notin client.boardDiv[1].noClick
    /\ client' = cellOnclick(Enter(client, "cellClick"), b, c)
    /\ UNCHANGED <<engineVars, now>>

\* The resign button: status events, clicks and the confirmation timer.
NextResign ==
    \/ \E s \in {"X", "O"} : Assign(s)
    \/ Spectator
    \/ \E a \in {null, "start", "waiting", "resign", "hidden"}, r \in {null, "rematch"} : GameStatus(a, r)
    \/ ActionClick
    \/ ResignTimeout
    \/ Advance

SpecResign == Init /\ [][NextResign]_vars

\* The move list: a short game, its history view and the clicks on the board.
NextHistory ==
    \/ \E s \in {"X", "O"} : Assign(s)
    \/ Spectator
    \/ \E b \in Idx, c \in Idx : StateAfterMove({GameTwoLines}, b, c, 0, 0)
    \/ \E started \in BOOLEAN : StateAgain(started, 0, 0)
    \/ RematchAgreed
    \/ \E key \in {"ArrowLeft", "ArrowRight", "Escape", "a"}, inChat \in BOOLEAN : KeyDown(key, inChat)
    \/ \E i \in Idx : ListClick(i)
    \/ ReturnClick
    \/ \E b \in Idx, c \in Idx : CellClick(b, c)

SpecHistory == Init /\ [][NextHistory]_vars

\* The end of a game: two decisive games, broadcasts and rematches.
NextVictory ==
    \/ \E s \in {"X", "O"} : Assign(s)
    \/ Spectator
    \/ \E b \in Idx, c \in Idx : StateAfterMove({GameXLine, GameOLine}, b, c, 0, 0)
    \/ \E started \in BOOLEAN : StateAgain(started, 0, 0)
    \/ RematchAgreed

SpecVictory == Init /\ [][NextVictory]_vars

\* The server's clock, one second ahead of the page's.
ServerClock == now + 1

\* The moveDeadline of a broadcast: none, one second ago, this very second, or
\* MoveTimeout seconds from now.
Deadline(left) ==
    IF left = "none" THEN 0
    ELSE IF left = "passed" THEN ServerClock - 1
    ELSE IF left = "now" THEN ServerClock
    ELSE ServerClock + MoveTimeout

\* The serverNow of a broadcast, 0 when the payload has none.
ServerNow(stamped) == IF stamped THEN ServerClock ELSE 0

\* The move clock: a timed room, the interval timer and the passing seconds.
NextTimer ==
    \/ \E b \in Idx, c \in Idx, left \in {"none", "passed", "now", "full"}, stamped \in BOOLEAN :
          StateAfterMove({GameCentre}, b, c, Deadline(left), ServerNow(stamped))
    \/ \E started \in BOOLEAN, left \in {"none", "passed", "now", "full"}, stamped \in BOOLEAN :
          StateAgain(started, Deadline(left), ServerNow(stamped))
    \/ Tick
    \/ Advance

SpecTimer == Init /\ [][NextTimer]_vars


(***************************************************************************)
(* Properties of makeMove.                                                 *)
(***************************************************************************)
Other(p) == IF p = "X" THEN "O" ELSE "X"

\* C1: in every reachable state and for every board b and cell c, makeMove(b, c)
\* returns true exactly when the game is not over, sub-board b is open, the forced
\* board is "any" or b, and the cell is empty; otherwise it returns false.
C1_AcceptedIffLegal ==
    \A b \in Idx, c \in Idx :
        makeMove(game, b, c).ret <=>
            /\ game.gameWinner = null
            /\ game.boardWinners[b] = null
            /\ (game.forcedBoard = nullIdx \/ game.forcedBoard = b)
            /\ game.boards[b][c] = null

\* X opened with (4,4); O, forced to board 4, tried (0,0) and was turned down.
C1_Witness ==
    /\ acceptedMoves = << <<4, 4>> >>
    /\ game.forcedBoard = 4
    /\ game.currentPlayer = "O"
    /\ result = "false"
    /\ ~makeMove(game, 0, 0).ret
    /\ makeMove(game, 4, 0).ret

\* C2: a rejected makeMove(b, c) leaves every field of the engine as it was.
C2_RejectedChangesNothing ==
    \A b \in Idx, c \in Idx :
        ~makeMove(game, b, c).ret =>
            LET g == makeMove(game, b, c).game
            IN  /\ g.boards = game.boards
                /\ g.boardWinners = game.boardWinners
                /\ g.boardWinLines = game.boardWinLines
                /\ g.currentPlayer = game.currentPlayer
                /\ g.forcedBoard = game.forcedBoard
                /\ g.gameWinner = game.gameWinner
                /\ g.gameWinLine = game.gameWinLine
                /\ g.lastMove = game.lastMove
                /\ g.moveHistory = game.moveHistory

\* A call was rejected in a running game whose forced board holds marks already.
C2_Witness ==
    /\ result = "false"
    /\ game.gameWinner = null
    /\ game.forcedBoard # nullIdx
    /\ \E c \in Idx : game.boards[game.forcedBoard][c] # null
    /\ Len(game.moveHistory) >= 3

\* C3: once gameWinner is set, every makeMove call fails and the engine, gameWinner
\* included, stays as it is in every later step.
C3_TerminalIsFrozen ==
    /\ [](game.gameWinner # null =>
            \A b \in Idx, c \in Idx : makeMove(game, b, c) = [game |-> game, ret |-> FALSE])
    /\ [][game.gameWinner # null => (game' = game /\ result' = "false")]_vars

\* A call was made, and rejected, after X had won the game with a meta line.
C3_Witness ==
    /\ game.gameWinner = "X"
    /\ game.gameWinLine = <<0, 3, 6>>
    /\ result = "false"

\* C4: forcedBoard is "any" or the index of a sub-board that is still open.
C4_ForcedBoardIsOpen ==
    \/ game.forcedBoard = nullIdx
    \/ /\ game.forcedBoard \in Idx
       /\ game.boardWinners[game.forcedBoard] = null

\* The last move pointed at a closed sub-board, so the next player may go anywhere.
C4_Witness ==
    /\ result = "true"
    /\ game.gameWinner = null
    /\ game.boardWinners[game.lastMove[2]] # null
    /\ game.forcedBoard = nullIdx

\* C5: a sub-board outcome, once set, is kept, and the nine cells of a closed
\* sub-board are never changed by a later makeMove.
C5_ClosedBoardIsFrozen ==
    [][\A i \in Idx :
          game.boardWinners[i] # null =>
              /\ game'.boardWinners[i] = game.boardWinners[i]
              /\ game'.boards[i] = game.boards[i]]_vars

\* A move was accepted while an X-won sub-board with empty cells was already closed.
C5_Witness ==
    /\ result = "true"
    /\ Len(game.moveHistory) >= 2
    /\ \E i \in Idx :
          /\ game.moveHistory[Len(game.moveHistory) - 1].snapshot.winners[i] = "X"
          /\ \E c \in Idx : game.boards[i][c] = null
          /\ game.boards[i] = game.moveHistory[Len(game.moveHistory) - 1].snapshot.boards[i]

\* Some meta-board line has its three sub-boards won by player p.
HasMetaLine(p) ==
    \E i \in 1..Len(WIN_LINES) : \A k \in 1..3 : game.boardWinners[WIN_LINES[i][k]] = p

\* C6: whenever some meta-board line has its three sub-boards won by the same player
\* P, the game is over with gameWinner = P and gameWinLine a meta line whose three
\* sub-boards are won by P, whatever the outcomes of the other sub-boards.
C6_MetaLineWins ==
    \A p \in {"X", "O"} :
        HasMetaLine(p) =>
            /\ game.gameWinner = p
            /\ \E i \in 1..Len(WIN_LINES) :
                  /\ game.gameWinLine = WIN_LINES[i]
                  /\ \A k \in 1..3 : game.boardWinners[WIN_LINES[i][k]] = p

\* C7: when all nine sub-boards are closed and no meta line belongs to one player,
\* gameWinner is the player who won strictly more sub-boards, or Draw on equal
\* counts; drawn sub-boards count for neither.
C7_MajorityDecides ==
    (/\ \A i \in Idx : game.boardWinners[i] # null
     /\ ~HasMetaLine("X")
     /\ ~HasMetaLine("O"))
    => LET x == Cardinality({ i \in Idx : game.boardWinners[i] = "X" })
           o == Cardinality({ i \in Idx : game.boardWinners[i] = "O" })
       IN  /\ x > o => game.gameWinner = "X"
           /\ o > x => game.gameWinner = "O"
           /\ x = o => game.gameWinner = "D"

\* All nine sub-boards closed, four each and one drawn, no meta line: a draw.
C7_Witness ==
    /\ \A i \in Idx : game.boardWinners[i] # null
    /\ ~HasMetaLine("X")
    /\ ~HasMetaLine("O")
    /\ Cardinality({ i \in Idx : game.boardWinners[i] = "X" }) = 4
    /\ Cardinality({ i \in Idx : game.boardWinners[i] = "O" }) = 4
    /\ Cardinality({ i \in Idx : game.boardWinners[i] = "D" }) = 1
    /\ game.gameWinner = "D"
    /\ result = "true"

\* C8: moveHistory grows by exactly one entry on every accepted makeMove and keeps
\* its length on every rejected one, so its length is the number of accepted
\* moves; it never shrinks.
C8_HistoryLength ==
    /\ [](/\ Len(game.moveHistory) = Len(acceptedMoves)
          /\ \A b \in Idx, c \in Idx :
                Len(makeMove(game, b, c).game.moveHistory) =
                    Len(game.moveHistory) + (IF makeMove(game, b, c).ret THEN 1 ELSE 0))
    /\ [][Len(game'.moveHistory) >= Len(game.moveHistory)]_vars

\* The move that ended the game is in the history, and a later call was rejected.
C8_Witness ==
    /\ game.gameWinner = "O"
    /\ game.gameWinLine = <<6, 7, 8>>
    /\ Len(game.moveHistory) = 22
    /\ result = "false"

\* C9: the k-th entry of moveHistory holds the board and cell of the k-th accepted
\* move and a snapshot equal, field by field, to the engine right after that move;
\* no later makeMove changes an entry, its position or its snapshot.
C9_HistoryEntries ==
    /\ [](/\ Len(game.moveHistory) = Len(acceptedMoves)
          /\ \A k \in 1..Len(game.moveHistory) :
                /\ game.moveHistory[k].board = acceptedMoves[k][1]
                /\ game.moveHistory[k].cell  = acceptedMoves[k][2])
    /\ [][/\ Len(game'.moveHistory) >= Len(game.moveHistory)
          /\ \A k \in 1..Len(game.moveHistory) : game'.moveHistory[k] = game.moveHistory[k]
          /\ Len(acceptedMoves') > Len(acceptedMoves) =>
                /\ Len(game'.moveHistory) = Len(game.moveHistory) + 1
                /\ LET snap == game'.moveHistory[Len(game'.moveHistory)].snapshot
                   IN  /\ snap.boards        = game'.boards
                       /\ snap.winners       = game'.boardWinners
                       /\ snap.boardWinLines = game'.boardWinLines
                       /\ snap.forced        = game'.forcedBoard
                       /\ snap.lastMove      = game'.lastMove
                       /\ snap.player        = game'.currentPlayer
                       /\ snap.gameWinner    = game'.gameWinner
                       /\ snap.gameWinLine   = game'.gameWinLine]_vars

\* Three moves in: the first entry still shows the board after the first move.
C9_Witness ==
    /\ Len(game.moveHistory) = 3
    /\ result = "true"
    /\ game.moveHistory[1].snapshot.player = "O"
    /\ game.moveHistory[1].snapshot.lastMove = acceptedMoves[1]
    /\ game.moveHistory[1].snapshot.boards # game.boards
    /\ game.moveHistory[3].snapshot.boards = game.boards
    /\ game.moveHistory[3].snapshot.player = game.currentPlayer

RecordedList(g) ==
    [k \in 1..Len(g.moveHistory) |->
        [board  |-> g.moveHistory[k].board,
         cell   |-> g.moveHistory[k].cell,
         player |-> g.moveHistory[k].player]]

\* C11: buildSnapshots on the live engine's recorded (board, cell, player) list
\* returns a sequence as long as moveHistory whose i-th snapshot equals the snapshot
\* stored in the i-th moveHistory entry.
C11_ReplayMatchesLive ==
    LET out == buildSnapshots(RecordedList(game))
    IN  /\ Len(out) = Len(game.moveHistory)
        /\ \A i \in 1..Len(out) : out[i].snapshot = game.moveHistory[i].snapshot

\* A finished game of 22 accepted moves whose replay ends with O's meta row too.
C11_Witness ==
    /\ Len(game.moveHistory) = 22
    /\ game.gameWinner = "O"
    /\ Len(buildSnapshots(RecordedList(game))) = 22
    /\ buildSnapshots(RecordedList(game))[22].snapshot.gameWinLine = <<6, 7, 8>>
    /\ buildSnapshots(RecordedList(game))[1].snapshot.player = "O"

\* The lines of WIN_LINES whose three cells of board hold the mark p.
LinesOf(board, p) ==
    { i \in 1..Len(WIN_LINES) : \A k \in 1..3 : board[WIN_LINES[i][k]] = p }

\* C12: after an accepted move by player P at (b, c), if sub-board b contains one of
\* the 8 lines filled with three P marks, then boardWinners[b] = P and
\* boardWinLines[b] is a line of sub-board b whose three cells all hold P.
C12_LineWinsBoard ==
    \A b \in Idx, c \in Idx :
        makeMove(game, b, c).ret =>
            LET g == makeMove(game, b, c).game
                P == game.currentPlayer
            IN  LinesOf(g.boards[b], P) # {} =>
                    /\ g.boardWinners[b] = P
                    /\ \E i \in LinesOf(g.boards[b], P) : g.boardWinLines[b] = WIN_LINES[i]

\* The last accepted move completed a line on a sub-board that was open before it.
C12_Witness ==
    /\ result = "true"
    /\ Len(game.moveHistory) >= 2
    /\ LET last == game.moveHistory[Len(game.moveHistory)]
           prev == game.moveHistory[Len(game.moveHistory) - 1]
       IN  /\ prev.snapshot.winners[last.board] = null
           /\ LinesOf(game.boards[last.board], last.player) # {}
           /\ game.boardWinners[last.board] = last.player
           /\ game.boardWinLines[last.board] # nullLine

\* C13: after every accepted move at (b, c), forcedBoard is c if sub-board c is open
\* once the move's sub-board outcome has been recorded, and "any" otherwise; a move
\* at (b, b) that closes sub-board b leaves "any", and (4,4) on the empty board
\* gives forcedBoard = 4.
C13_ForcedBoardRule ==
    /\ \A b \in Idx, c \in Idx :
          makeMove(game, b, c).ret =>
              LET g == makeMove(game, b, c).game
              IN  /\ g.boardWinners[c] = null => g.forcedBoard = c
                  /\ g.boardWinners[c] # null => g.forcedBoard = nullIdx
                  /\ (b = c /\ g.boardWinners[b] # null) => g.forcedBoard = nullIdx
    /\ acceptedMoves = << <<4, 4>> >> => game.forcedBoard = 4

\* The last accepted move, at (b, b), closed sub-board b: the next player is free.
C13_Witness ==
    /\ result = "true"
    /\ Len(game.moveHistory) >= 2
    /\ game.lastMove[1] = game.lastMove[2]
    /\ game.moveHistory[Len(game.moveHistory) - 1].snapshot.winners[game.lastMove[1]] = null
    /\ game.boardWinners[game.lastMove[1]] # null
    /\ game.forcedBoard = nullIdx
    /\ game.gameWinner = null

\* C14: currentPlayer starts as X, flips on every accepted move, the move that ends
\* the game included, and is unchanged by rejected moves; so currentPlayer is X
\* exactly when the number of accepted moves is even.
C14_TurnsAlternate ==
    /\ [](/\ game.currentPlayer \in {"X", "O"}
          /\ game.currentPlayer = "X" <=> Len(acceptedMoves) % 2 = 0
          /\ \A b \in Idx, c \in Idx :
                makeMove(game, b, c).game.currentPlayer =
                    IF makeMove(game, b, c).ret THEN Other(game.currentPlayer)
                                                ELSE game.currentPlayer)
    /\ [][/\ result' = "true"  => game'.currentPlayer = Other(game.currentPlayer)
          /\ result' = "false" => game'.currentPlayer = game.currentPlayer]_vars

\* X's 23rd move won the game and the turn still went over to O.
C14_Witness ==
    /\ Len(acceptedMoves) = 23
    /\ game.gameWinner = "X"
    /\ game.moveHistory[23].player = "X"
    /\ game.currentPlayer = "O"
    /\ result = "true"

\* The cells <<i, j>> on which the boards p and q differ.
ChangedCells(p, q) == { ij \in Idx \X Idx : p[ij[1]][ij[2]] # q[ij[1]][ij[2]] }

\* C15: an accepted makeMove(b, c) changes exactly one of the 81 cells: boards[b][c]
\* goes from empty to the mark of the player whose turn it was, and every other cell
\* keeps its value; no cell ever goes from a mark back to empty or to the other mark.
C15_OneCellPerMove ==
    /\ [](\A b \in Idx, c \in Idx :
            makeMove(game, b, c).ret =>
                /\ game.boards[b][c] = null
                /\ game.currentPlayer \in {"X", "O"}
                /\ makeMove(game, b, c).game.boards =
                       [game.boards EXCEPT ![b][c] = game.currentPlayer])
    /\ [][/\ result' = "true" =>
                /\ ChangedCells(game.boards, game'.boards) = {game'.lastMove}
                /\ game.boards[game'.lastMove[1]][game'.lastMove[2]] = null
                /\ game'.boards[game'.lastMove[1]][game'.lastMove[2]] = game.currentPlayer
          /\ \A i \in Idx, j \in Idx :
                game.boards[i][j] # null => game'.boards[i][j] = game.boards[i][j]]_vars

\* The last accepted move changed one cell of a board that held marks of both players.
C15_Witness ==
    /\ result = "true"
    /\ Len(game.moveHistory) >= 3
    /\ LET last == game.moveHistory[Len(game.moveHistory)]
           prev == game.moveHistory[Len(game.moveHistory) - 1]
       IN  /\ ChangedCells(prev.snapshot.boards, game.boards) = {<<last.board, last.cell>>}
           /\ prev.snapshot.boards[last.board][last.cell] = null
           /\ game.boards[last.board][last.cell] = last.player
           /\ prev.snapshot.player = last.player

\* The fields of the engine g other than its history.
EngineFields(g) ==
    <<g.boards, g.boardWinners, g.boardWinLines, g.currentPlayer, g.forcedBoard,
      g.gameWinner, g.gameWinLine, g.lastMove>>

\* C16: a snapshot shares no mutable array with the engine or with any other
\* snapshot: overwriting an element of any array reachable from one snapshot (board
\* rows, outcome array, the boardWinLines array and each win line inside it, lastMove,
\* gameWinLine) changes neither the engine's state nor any other snapshot.
C16_SnapshotsShareNothing ==
    [][overwrites' > overwrites =>
          /\ EngineFields(game') = EngineFields(game)
          /\ Len(game'.moveHistory) = Len(game.moveHistory)
          /\ \A j \in 1..(Len(game.moveHistory) - 1) :
                game'.moveHistory[j] = game.moveHistory[j]]_vars

\* C17: a newly constructed engine has all 81 cells empty, all nine boardWinners
\* none, all nine boardWinLines absent, currentPlayer = X, forcedBoard = "any",
\* gameWinner none, gameWinLine absent, lastMove absent and an empty moveHistory.
C17_NewEngine ==
    (result = "none" /\ acceptedMoves = <<>>) =>
        /\ DOMAIN game.boards = Idx
        /\ \A b \in Idx : DOMAIN game.boards[b] = Idx /\ \A c \in Idx : game.boards[b][c] = null
        /\ DOMAIN game.boardWinners = Idx /\ \A b \in Idx : game.boardWinners[b] = null
        /\ DOMAIN game.boardWinLines = Idx /\ \A b \in Idx : game.boardWinLines[b] = nullLine
        /\ game.currentPlayer = "X"
        /\ game.forcedBoard = nullIdx
        /\ game.gameWinner = null
        /\ game.gameWinLine = nullLine
        /\ game.lastMove = <<>>
        /\ game.moveHistory = <<>>

\* The engine right after construction: no call made yet, and X may play anywhere.
C17_Witness ==
    /\ result = "none"
    /\ acceptedMoves = <<>>
    /\ game.currentPlayer = "X"
    /\ \A b \in Idx, c \in Idx : makeMove(game, b, c).ret

\* The move (b, c) is legal in the position the snapshot s shows.
LegalIn(s, b, c) ==
    /\ s.gameWinner = null
    /\ s.winners[b] = null
    /\ s.forced = nullIdx \/ s.forced = b
    /\ s.boards[b][c] = null

\* C18: buildSnapshots returns exactly one entry per entry of the supplied list, in
\* the same order; an entry that is illegal against the reconstructed state is not
\* applied, and its snapshot equals the snapshot of the preceding entry (of the
\* initial state if it is the first).
C18_ReplayKeepsIllegalEntries ==
    \A r \in 1..Len(replays) :
        LET h   == replays[r].history
            out == replays[r].snapshots
        IN  /\ Len(out) = Len(h)
            /\ \A k \in 1..Len(h) :
                  LET before == IF k = 1 THEN getState(UTTT) ELSE out[k - 1].snapshot
                  IN  /\ out[k].board  = h[k].board
                      /\ out[k].cell   = h[k].cell
                      /\ out[k].player = h[k].player
                      /\ ~LegalIn(before, h[k].board, h[k].cell) => out[k].snapshot = before

\* A replayed log whose second and third entries were illegal: both repeat the first
\* snapshot, and the fourth entry is applied as O's move.
C18_Witness ==
    \E r \in 1..Len(replays) :
        /\ Len(replays[r].history) = 4
        /\ Len(replays[r].snapshots) = 4
        /\ ~LegalIn(replays[r].snapshots[1].snapshot, 0, 0)
        /\ replays[r].snapshots[2].board = 0
        /\ replays[r].snapshots[2].snapshot = replays[r].snapshots[1].snapshot
        /\ replays[r].snapshots[3].snapshot = replays[r].snapshots[1].snapshot
        /\ replays[r].snapshots[4].snapshot.boards[4][8] = "O"

\* C19: getState is a pure projection: a call changes no field of the engine, and
\* its result has boards, winners, boardWinLines, forced, lastMove, player,
\* gameWinner and gameWinLine equal to the engine's boards, boardWinners,
\* boardWinLines, forcedBoard, lastMove, currentPlayer, gameWinner and gameWinLine
\* at the time of the call.
C19_GetStateProjects ==
    /\ [](LET s == getState(game)
          IN  /\ s.boards        = game.boards
              /\ s.winners       = game.boardWinners
              /\ s.boardWinLines = game.boardWinLines
              /\ s.forced        = game.forcedBoard
              /\ s.lastMove      = game.lastMove
              /\ s.player        = game.currentPlayer
              /\ s.gameWinner    = game.gameWinner
              /\ s.gameWinLine   = game.gameWinLine)
    /\ [][held' # held =>
              /\ game' = game
              /\ Len(held') = 1
              /\ held'[1].boards        = game.boards
              /\ held'[1].winners       = game.boardWinners
              /\ held'[1].boardWinLines = game.boardWinLines
              /\ held'[1].forced        = game.forcedBoard
              /\ held'[1].lastMove      = game.lastMove
              /\ held'[1].player        = game.currentPlayer
              /\ held'[1].gameWinner    = game.gameWinner
              /\ held'[1].gameWinLine   = game.gameWinLine]_vars

\* The caller read the position after X had won with a meta line: the value shows
\* the final position, as the snapshot of the last move does.
C19_Witness ==
    /\ Len(held) = 1
    /\ game.gameWinner = "X"
    /\ held[1].gameWinner = "X"
    /\ held[1].gameWinLine = <<0, 3, 6>>
    /\ held[1].lastMove = acceptedMoves[Len(acceptedMoves)]
    /\ held[1] = game.moveHistory[Len(game.moveHistory)].snapshot

\* C20: an illegal move is never raised as a fatal condition: in every reachable
\* state makeMove, called with any integers, indices outside 0..8 included, returns
\* true or false without throwing and, when it returns false, without changing the
\* engine.
C20_NeverThrows ==
    /\ result # "TypeError"
    /\ \A b \in Args, c \in Args :
          /\ makeMoveAnyArgs(game, b, c).ret \in {"true", "false"}
          /\ makeMoveAnyArgs(game, b, c).ret = "false" =>
                makeMoveAnyArgs(game, b, c).game = game

(***************************************************************************)
(* Invariants of the engine's fields.                                      *)
(***************************************************************************)
AllClosed == \A i \in Idx : game.boardWinners[i] # null

\* Some meta-board line is made of three drawn sub-boards.
HasDrawnMetaLine ==
    \E i \in 1..Len(WIN_LINES) : \A k \in 1..3 : game.boardWinners[WIN_LINES[i][k]] = "D"

\* C21: the majority tie-break is applied only when the meta-board is fully closed:
\* where gameWinner is Draw, or is X or O while gameWinLine is absent, all nine
\* boardWinners are set; and gameWinner = Draw implies that X and O won equally many
\* sub-boards.
C21_TieBreakOnlyWhenClosed ==
    /\ game.gameWinner = "D" => AllClosed
    /\ (game.gameWinner \in {"X", "O"} /\ game.gameWinLine = nullLine) => AllClosed
    /\ game.gameWinner = "D" => CountWon(game.boardWinners, "X") = CountWon(game.boardWinners, "O")

\* X won on the count of sub-boards, four to two, without a meta line.
C21_Witness ==
    /\ game.gameWinner = "X"
    /\ game.gameWinLine = nullLine
    /\ AllClosed
    /\ CountWon(game.boardWinners, "X") = 4
    /\ CountWon(game.boardWinners, "O") = 2
    /\ result = "true"

\* C22: if gameWinLine is present then gameWinner is X or O, gameWinLine is one of
\* the 8 fixed lines and boardWinners at its three indices equals gameWinner; a meta
\* line of three drawn sub-boards is never recorded as gameWinLine and never sets
\* gameWinner by itself.
C22_GameWinLineIsWinners ==
    /\ game.gameWinLine # nullLine =>
          /\ game.gameWinner \in {"X", "O"}
          /\ \E i \in 1..Len(WIN_LINES) : game.gameWinLine = WIN_LINES[i]
          /\ \A k \in 1..3 : game.boardWinners[game.gameWinLine[k]] = game.gameWinner
    /\ (HasDrawnMetaLine /\ ~HasMetaLine("X") /\ ~HasMetaLine("O") /\ ~AllClosed) =>
          (game.gameWinner = null /\ game.gameWinLine = nullLine)
    /\ (HasDrawnMetaLine /\ game.gameWinLine # nullLine) =>
          \E k \in 1..3 : game.boardWinners[game.gameWinLine[k]] # "D"

\* The move that drew sub-boards 0, 1 and 2, a meta row: the game goes on.
C22_Witness ==
    /\ result = "true"
    /\ \A i \in 0..2 : game.boardWinners[i] = "D"
    /\ game.boardWinners[game.lastMove[1]] = "D"
    /\ game.lastMove[1] \in 0..2
    /\ Len(game.moveHistory) >= 2
    /\ game.moveHistory[Len(game.moveHistory) - 1].snapshot.winners[game.lastMove[1]] = null
    /\ ~AllClosed
    /\ game.gameWinner = null
    /\ game.gameWinLine = nullLine

\* C23: for every sub-board i, boardWinLines[i] is present exactly when
\* boardWinners[i] is X or O; a sub-board that fills up with no three-in-a-row has
\* boardWinners[i] = Draw and boardWinLines[i] absent, and an open sub-board has both
\* none.
C23_LineIffDecisive ==
    \A i \in Idx :
        /\ game.boardWinLines[i] # nullLine <=> game.boardWinners[i] \in {"X", "O"}
        /\ ((\A c \in Idx : game.boards[i][c] # null)
             /\ LinesOf(game.boards[i], "X") = {} /\ LinesOf(game.boards[i], "O") = {}) =>
               (game.boardWinners[i] = "D" /\ game.boardWinLines[i] = nullLine)
        /\ game.boardWinners[i] = null => game.boardWinLines[i] = nullLine

\* The last move filled a sub-board with no line: drawn, while others are won or open.
C23_Witness ==
    /\ result = "true"
    /\ \A c \in Idx : game.boards[game.lastMove[1]][c] # null
    /\ game.boardWinners[game.lastMove[1]] = "D"
    /\ game.boardWinLines[game.lastMove[1]] = nullLine
    /\ \E i \in Idx : game.boardWinners[i] \in {"X", "O"} /\ game.boardWinLines[i] # nullLine
    /\ \E i \in Idx : game.boardWinners[i] = null

\* The lines of WIN_LINES through index b whose three cells of board hold the mark p.
LinesThrough(board, p, b) ==
    { i \in LinesOf(board, p) : \E k \in 1..3 : WIN_LINES[i][k] = b }

\* C24: the win-line check tests the lines in the order [0,1,2],[3,4,5],[6,7,8],
\* [0,3,6],[1,4,7],[2,5,8],[0,4,8],[2,4,6] and returns the first match: when one move
\* completes two lines of a sub-board, boardWinLines[b] is the one that comes first
\* in this order, and likewise gameWinLine when one sub-board win completes two meta
\* lines.
C24_FirstLineInOrder ==
    /\ [](WIN_LINES = << <<0,1,2>>, <<3,4,5>>, <<6,7,8>>, <<0,3,6>>, <<1,4,7>>, <<2,5,8>>,
                          <<0,4,8>>, <<2,4,6>> >>)
    /\ [][result' = "true" =>
              LET b == game'.lastMove[1]
                  P == game.currentPlayer
              IN  /\ LinesOf(game'.boards[b], P) # {} =>
                        game'.boardWinLines[b] = WIN_LINES[Min(LinesOf(game'.boards[b], P))]
                  /\ Cardinality(LinesThrough(game'.boardWinners, P, b)) >= 2 =>
                        game'.gameWinLine =
                            WIN_LINES[Min(LinesThrough(game'.boardWinners, P, b))]]_vars

\* X's move at cell 8 completed the column 2,5,8 and the diagonal 0,4,8 of a
\* sub-board: the column, which comes first, is the line recorded.
C24_Witness ==
    /\ result = "true"
    /\ game.lastMove[2] = 8
    /\ LinesOf(game.boards[game.lastMove[1]], "X") = {6, 7}
    /\ game.boardWinners[game.lastMove[1]] = "X"
    /\ game.boardWinLines[game.lastMove[1]] = <<2, 5, 8>>

\* C25: lastMove is absent exactly when moveHistory is empty; otherwise lastMove is
\* the (board, cell) of the last moveHistory entry, that cell is non-empty and holds
\* the mark of the player who is not currentPlayer.
C25_LastMoveIsLastEntry ==
    /\ game.lastMove = <<>> <=> game.moveHistory = <<>>
    /\ game.moveHistory # <<>> =>
          LET last == game.moveHistory[Len(game.moveHistory)]
          IN  /\ game.lastMove = <<last.board, last.cell>>
              /\ game.boards[game.lastMove[1]][game.lastMove[2]] # null
              /\ game.boards[game.lastMove[1]][game.lastMove[2]] = Other(game.currentPlayer)

\* After a rejected call lastMove is still the move before it, here O's.
C25_Witness ==
    /\ result = "false"
    /\ Len(game.moveHistory) >= 2
    /\ game.lastMove = acceptedMoves[Len(acceptedMoves)]
    /\ game.lastMove[1] # game.lastMove[2]
    /\ game.boards[game.lastMove[1]][game.lastMove[2]] = "O"
    /\ game.currentPlayer = "X"

\* C26: no reachable non-terminal state is stuck: whenever gameWinner is none some
\* (board, cell) is accepted by makeMove; if forcedBoard is an index that sub-board
\* has an empty cell, and if it is "any" some open sub-board has one.
C26_NeverStuck ==
    game.gameWinner = null =>
        /\ \E b \in Idx, c \in Idx : makeMove(game, b, c).ret
        /\ game.forcedBoard # nullIdx => \E c \in Idx : game.boards[game.forcedBoard][c] = null
        /\ game.forcedBoard = nullIdx =>
              \E b \in Idx : game.boardWinners[b] = null /\ \E c \in Idx : game.boards[b][c] = null

\* Eight sub-boards are closed, the player may go anywhere, and one move is left open.
C26_Witness ==
    /\ game.gameWinner = null
    /\ game.forcedBoard = nullIdx
    /\ Cardinality({ b \in Idx : game.boardWinners[b] # null }) = 8
    /\ \E b \in Idx, c \in Idx : makeMove(game, b, c).ret

\* C28: boardWinners[i] agrees with the cells of sub-board i: it is P exactly when
\* the sub-board contains a complete line of P, Draw exactly when it is full with no
\* complete line, none exactly when it has no complete line and an empty cell; no
\* sub-board contains complete lines of both players.
C28_WinnersAgreeWithCells ==
    \A i \in Idx :
        LET full   == \A c \in Idx : game.boards[i][c] # null
            noLine == LinesOf(game.boards[i], "X") = {} /\ LinesOf(game.boards[i], "O") = {}
        IN  /\ game.boardWinners[i] = "X" <=> LinesOf(game.boards[i], "X") # {}
            /\ game.boardWinners[i] = "O" <=> LinesOf(game.boards[i], "O") # {}
            /\ game.boardWinners[i] = "D" <=> (full /\ noLine)
            /\ game.boardWinners[i] = null <=> (~full /\ noLine)
            /\ LinesOf(game.boards[i], "X") = {} \/ LinesOf(game.boards[i], "O") = {}

\* The four kinds side by side: sub-boards won by X, won by O, drawn and open.
C28_Witness ==
    /\ \E i \in Idx : game.boardWinners[i] = "X" /\ LinesOf(game.boards[i], "X") # {}
    /\ \E i \in Idx : game.boardWinners[i] = "O" /\ LinesOf(game.boards[i], "O") # {}
    /\ \E i \in Idx : game.boardWinners[i] = "D" /\ \A c \in Idx : game.boards[i][c] # null
    /\ \E i \in Idx : game.boardWinners[i] = null /\ \E c \in Idx : game.boards[i][c] # null
    /\ result = "true"

\* C29: a decisive outcome belongs to the player who just moved: an accepted move
\* by P sets boardWinners[b] to P or Draw, never to P's opponent, and when it
\* produces gameWinner with a gameWinLine, gameWinner = P.
C29_OutcomeIsMovers ==
    [][result' = "true" =>
          LET b == game'.lastMove[1]
              P == game.currentPlayer
          IN  /\ game.boardWinners[b] = null
              /\ game'.boardWinners[b] \in {null, P, "D"}
              /\ \A i \in Idx \ {b} : game'.boardWinners[i] = game.boardWinners[i]
              /\ (game'.gameWinner # null /\ game'.gameWinLine # nullLine) =>
                    game'.gameWinner = P]_vars

\* X made the last move and closed the ninth sub-board; the count made O the winner.
C29_Witness ==
    /\ result = "true"
    /\ game.moveHistory[Len(game.moveHistory)].player = "X"
    /\ game.boardWinners[game.lastMove[1]] \in {"X", "D"}
    /\ game.moveHistory[Len(game.moveHistory) - 1].snapshot.winners[game.lastMove[1]] = null
    /\ game.gameWinner = "O"
    /\ game.gameWinLine = nullLine

\* The number of cells of the nine sub-boards that hold the mark p.
Marks(p) == Cardinality({ ij \in Idx \X Idx : game.boards[ij[1]][ij[2]] = p })

\* C30: the number of non-empty cells equals the length of moveHistory, and the
\* number of X marks minus the number of O marks is 0 when currentPlayer is X and 1
\* when currentPlayer is O.
C30_MarksCountMoves ==
    /\ Marks("X") + Marks("O") = Len(game.moveHistory)
    /\ Cardinality({ ij \in Idx \X Idx : game.boards[ij[1]][ij[2]] # null }) = Len(game.moveHistory)
    /\ game.currentPlayer = "X" => Marks("X") - Marks("O") = 0
    /\ game.currentPlayer = "O" => Marks("X") - Marks("O") = 1

\* All 81 cells are filled, 41 by X and 40 by O, after 81 accepted moves.
C30_Witness ==
    /\ Len(game.moveHistory) = 81
    /\ Marks("X") = 41
    /\ Marks("O") = 40
    /\ game.currentPlayer = "O"
    /\ game.gameWinner = "X"

\* C27: every game terminates: moveHistory never has more than 81 entries, and if
\* the players keep making legal moves whenever one exists, a state with gameWinner
\* set is eventually reached.
C27_GameTerminates ==
    /\ [](Len(game.moveHistory) <= 81)
    /\ <>(game.gameWinner # null)

\* A game that left the recorded games after move 3 and was played to its end.
C27_Witness ==
    /\ game.gameWinner # null
    /\ offScript >= 10
    /\ Len(acceptedMoves) = offScript + 3
    /\ SubSeq(acceptedMoves, 1, 3) = GameCentre
    /\ Len(game.moveHistory) <= 81

\* C31: each moveHistory entry is tagged with the player who made the move, not the
\* player to move next: the entry's player differs from its snapshot's player
\* field, equals the mark stored at the entry's (board, cell) in its snapshot, and
\* the tags alternate X, O, X, ... starting with X.
C31_EntryTaggedWithMover ==
    \A k \in 1..Len(game.moveHistory) :
        LET e == game.moveHistory[k]
        IN  /\ e.player \in {"X", "O"}
            /\ e.player # e.snapshot.player
            /\ e.player = e.snapshot.boards[e.board][e.cell]
            /\ e.player = IF k % 2 = 1 THEN "X" ELSE "O"

\* The move that ended a game was O's: the last entry is tagged O although X is
\* the player to move in its snapshot and in the engine.
C31_Witness ==
    /\ Len(game.moveHistory) >= 22
    /\ game.gameWinner = "O"
    /\ game.moveHistory[Len(game.moveHistory)].player = "O"
    /\ game.moveHistory[Len(game.moveHistory)].snapshot.player = "X"
    /\ game.currentPlayer = "X"
    /\ game.moveHistory[1].player = "X"

(***************************************************************************)
(* The game client.                                                        *)
(***************************************************************************)

\* The last handler emitted a message of this type.
Emitted(cl, type) == \E k \in 1..Len(cl.emitted) : cl.emitted[k].type = type

\* The step ran the handler of this name.
Handled(name) == client' # client /\ client'.handler = name

\* C32: resigning needs two clicks.  "resign" is emitted only by a click on the
\* action button made while resignConfirming is true and the page is no
\* spectator's; resignConfirming becomes true only by a click on Resign that emits
\* nothing; it is false after the confirmation timer fired and after a gameStatus
\* event that carries button_action; and while it is true the timer set by the
\* first click is pending and fires within ResignConfirmSeconds of that click.
C32_ResignNeedsTwoClicks ==
    /\ [](client.resignConfirming =>
             \E t \in client.timeouts :
                 /\ t.id = client.resignTimer
                 /\ t.due >= now
                 /\ t.due <= now + ResignConfirmSeconds)
    /\ [][/\ (client' # client /\ Emitted(client', "resign")) =>
                /\ Handled("actionClick")
                /\ client.resignConfirming
                /\ ~client.isSpectator
                /\ ~client'.resignConfirming
                /\ Len(client'.emitted) = 1
          /\ (client'.resignConfirming /\ ~client.resignConfirming) =>
                /\ Handled("actionClick")
                /\ client.actionBtn.textContent \in {"Resign", "Sure?"}
                /\ client'.emitted = <<>>
          /\ (Handled("resignTimeout") \/ Handled("gameStatus with button_action")) =>
                ~client'.resignConfirming
          /\ (Handled("actionClick") /\ client.isSpectator) =>
                client'.emitted = <<>>]_vars

\* X clicked Resign and then, at least a second later, Sure?: the resignation went out.
C32_Witness ==
    /\ client.handler = "actionClick"
    /\ client.emitted = << [type |-> "resign", board |-> nullIdx, cell |-> nullIdx, symbol |-> "X"] >>
    /\ client.actionBtn.textContent = "Sure?"
    /\ ~client.resignConfirming
    /\ now >= 1

\* C33: while a historical move is viewed, a "state" event updates gameState and
\* the move list but leaves the rendered board, historyIndex, lastMoveCount and
\* lastWinners as they are; the board that replaces a history view with a live one
\* is drawn when the history view is exited, from the gameState received last.
C33_StateKeepsHistoryView ==
    [][/\ (Handled("state") /\ client.historyIndex # nullIdx) =>
             /\ client'.gameState # <<>>
             /\ client'.gameState[1].moveHistory = game'.moveHistory
             /\ client'.gameState[1].boards = game'.boards
             /\ client'.fullMoveHistory = game'.moveHistory
             /\ client'.moveHistoryList = Len(game'.moveHistory)
             /\ client'.boardDiv = client.boardDiv
             /\ client'.historyIndex = client.historyIndex
             /\ client'.lastMoveCount = client.lastMoveCount
             /\ client'.lastWinners = client.lastWinners
       /\ (/\ client.historyIndex # nullIdx
           /\ client'.boardDiv # client.boardDiv
           /\ ~client'.boardDiv[1].isHistoryView) =>
             /\ Handled("ArrowRight") \/ Handled("Escape") \/ Handled("returnClick")
             /\ client'.historyIndex = nullIdx
             /\ client'.gameState = client.gameState
             /\ client'.boardDiv[1].state = Grid(client.gameState[1])
             /\ client'.lastWinners = client.gameState[1].winners]_vars

\* The state after move 9, in which X wins sub-board 3, arrived while move 2 was
\* viewed: the board still shows move 2 and sub-board 3 is not yet in lastWinners.
C33_Witness ==
    /\ client.handler = "state"
    /\ client.historyIndex = 1
    /\ Len(client.fullMoveHistory) = 9
    /\ client.gameState[1].winners[3] = "X"
    /\ client.lastWinners[3] = null
    /\ client.lastMoveCount < 9
    /\ client.boardDiv[1].isHistoryView
    /\ client.boardDiv[1].state.boards = client.fullMoveHistory[2].snapshot.boards

\* C35: a click on a cell of a board drawn by drawSnapshot never emits "move";
\* "move" is emitted only from the live board, and only when the page is no
\* spectator's, its symbol is the displayed state's player, the game has started
\* and gameWinner is not set.
C35_MoveOnlyFromLiveBoard ==
    (client.handler = "cellClick" /\ Emitted(client, "move")) =>
        /\ ~client.boardDiv[1].isHistoryView
        /\ ~client.isSpectator
        /\ client.mySymbol = client.boardDiv[1].state.player
        /\ client.boardDiv[1].state.started
        /\ ~Truthy(client.boardDiv[1].state.gameWinner)

\* C36: historyIndex is null or an index of fullMoveHistory.  ArrowLeft selects
\* the last move from the live view and otherwise steps back by one, not below 0;
\* ArrowRight steps forward by one and exits the history view from the last move;
\* rematchAgreed resets historyIndex to null.
C36_HistoryIndexValid ==
    /\ [](\/ client.historyIndex = nullIdx
          \/ /\ client.historyIndex >= 0
             /\ client.historyIndex < Len(client.fullMoveHistory))
    /\ [][/\ (Handled("ArrowLeft") /\ client.fullMoveHistory # <<>>) =>
                client'.historyIndex =
                    IF client.historyIndex = nullIdx THEN Len(client.fullMoveHistory) - 1
                    ELSE IF client.historyIndex > 0 THEN client.historyIndex - 1
                    ELSE 0
          /\ (Handled("ArrowRight") /\ client.fullMoveHistory # <<>>) =>
                client'.historyIndex =
                    IF client.historyIndex = nullIdx THEN nullIdx
                    ELSE IF client.historyIndex < Len(client.fullMoveHistory) - 1
                         THEN client.historyIndex + 1
                    ELSE nullIdx
          /\ (Handled("Escape")) => client'.historyIndex = nullIdx
          /\ (Handled("rematchAgreed")) =>
                client'.historyIndex = nullIdx /\ client'.fullMoveHistory = <<>>
          /\ (Handled("state")) =>
                /\ client'.historyIndex = client.historyIndex
                /\ Len(client'.fullMoveHistory) >= Len(client.fullMoveHistory)]_vars

\* After a rematch the list still shows the nine moves of the game before; a click
\* on one of them selected nothing.
C36_Witness ==
    /\ client.handler = "listClick"
    /\ client.moveHistoryList = 9
    /\ client.fullMoveHistory = <<>>
    /\ client.historyIndex = nullIdx

\* C37: a page that is no spectator's shows the victory animation exactly once per
\* finished game, on the first "state" that carries a gameWinner, and not again on
\* further states that carry one; a spectator's page never shows it.
C37_VictoryOnce ==
    /\ [](client.animations <= 1)
    /\ []((/\ client.handler = "state"
           /\ ~client.isSpectator
           /\ Truthy(client.gameState[1].gameWinner)) => client.animations = 1)
    /\ [][/\ client'.animations > client.animations =>
                /\ Handled("state")
                /\ ~client.isSpectator
                /\ Truthy(client'.gameState[1].gameWinner)
                /\ \/ client.gameState = <<>>
                   \/ ~Truthy(client.gameState[1].gameWinner)
                   \/ ~client.gameEnded
          /\ client.isSpectator => client'.animations <= client.animations]_vars

\* O's page has the state of the game X won and has shown its animation once.
C37_Witness ==
    /\ client.handler = "state"
    /\ client.mySymbol = "O"
    /\ ~client.isSpectator
    /\ client.gameState[1].gameWinner = "X"
    /\ Len(client.gameState[1].moveHistory) = 23
    /\ client.gameEnded
    /\ client.animations = 1

\* C34: a call of startTimer with a deadline leads to at most one "timeout"
\* message, also when the deadline has passed at the call, and after a "timeout"
\* was emitted no interval timer is running.
C34_OneTimeoutPerDeadline ==
    /\ client.deadlineTimeouts <= 1
    /\ Emitted(client, "timeout") => client.intervals = {}

====
